---- MODULE Spec2Model ----
(***************************************************************************)
(* Verification model of the siad sector store (contract manager), the     *)
(* renter's upload heap and the host's MDM program engine.                 *)
(*                                                                         *)
(* Each subsystem has its own variables, its own actions and its own       *)
(* specification; a subsystem's specification leaves the variables of the  *)
(* other subsystems unchanged.                                             *)
(***************************************************************************)
EXTENDS Integers, Sequences, FiniteSets, TLC

(***************************************************************************)
(* Bounds of the model.                                                    *)
(***************************************************************************)
\* the upload heap is explored up to this length
MaxHeapLen == 3
\* cap on stuck chunks in the heap (used at uploadheap.go:154; its value is
\* set in a file outside the modelled sources)
maxStuckChunksInHeap == 1

\* goroutines that lock and unlock sectors
NumThreads == 3

\* slots of the storage folder's sector file
NumSlots == 2
\* sub-sector entries the host tracks at a time
MaxSubSectors == 3
\* virtual sectors per physical sector (2^16 in the host, scaled down)
maxVirtualSectors == 2

\* modules.SectorSize (4 MiB), scaled down to two bytes
SectorSize == 2
\* 2^32 and 2^64, scaled down so that SectorSize < TwoPow32 and
\* 2 * TwoPow32 <= TwoPow64 as in the host
TwoPow32 == 4
TwoPow64 == 8
\* cm.sectorSalt, mixed into every sector id
sectorSalt == 10

\* instructions per MDM program
MaxInstructions == 3

\* sectors of a contract, and sectors a program marks as removed
MaxRoots == 4
MaxRemoved == 3

\* slots of the storage folder's metadata file
NumMetaSlots == 2
\* the values of a byte (2^8 in the host, scaled down to one bit)
TwoPow8 == 2
\* bytes of a sectorID ([12]byte in the host, scaled down)
sectorIDSize == 2

\* cap on the chunks in the upload heap (used at uploadheap.go:597 and 635;
\* its value is set in a file outside the modelled sources)
maxUploadHeapChunks == 2
\* the heap length below which managedRepairLoop stops (used at
\* uploadheap.go:850; its value is set in a file outside the modelled sources)
minUploadHeapSize == 2
\* siafile.RemoteRepairDownloadThreshold in tenths (value outside the
\* modelled sources)
RemoteRepairDownloadThreshold == 3
\* health 1 in tenths
FullHealth == 10
\* entry.ErasureCode().MinPieces()
MinPieces == 1

\* health values in tenths: 3 stands for 0.3 and 9 for 0.9
HealthValues == {3, 9}

VARIABLES
    \* ---- renter upload heap (modules/renter/uploadheap.go) ----
    heap,               \* uh.heap: the slice behind container/heap
    repairingChunks,    \* uh.repairingChunks
    stuckHeapChunks,    \* uh.stuckHeapChunks
    unstuckHeapChunks,  \* uh.unstuckHeapChunks
    heapCall,           \* the last call on the upload heap and what it returned
    \* ---- per-sector locks of the contract manager's write-ahead log ----
    walMu,              \* wal.mu: 0 when free, else the goroutine holding it
    lockedSectors,      \* cm.lockedSectors: sector id -> *sectorLock (0: no entry)
    sectorLocks,        \* the sectorLock objects: waiting and mu (0 free, else holder)
    pc,                 \* where each goroutine is in managedLockSector/managedUnlockSector
    lockId,             \* the sector id of each goroutine's current call (0: none)
    sl,                 \* each goroutine's local sl pointer (0: nil)
    held,               \* the sectorLock whose mu each goroutine has locked (0: none)
    collected,          \* the sector ids whose table entry was garbage-collected before
    lockCritical,       \* managedUnlockSector logged "Unlock of sector that is not locked"
    \* ---- sector store of the contract manager ----
    sectorLocations,    \* cm.sectorLocations: sector id -> sectorLocation
    subSectorLocations, \* cm.subSectorLocations: sector id -> []subSectorLocation
    sectorFile,         \* the storage folder's sector file: slot -> sector data
    registered,         \* the SetSubSector calls that succeeded and whose parent is still stored
    storeCall,          \* the last call on the sector store and what deleteSector found
    \* ---- MDM program engine ----
    mdmPc,              \* where ExecuteProgram and its goroutine are
    call,               \* the arguments ExecuteProgram was called with
    instructions,       \* p.instructions
    remainingBudget,    \* p.staticProgramState.remainingBudget
    budgetBefore,       \* the remaining budget before the last deduction
    deducted,           \* the last deduction: "none", "ok" or "underflow"
    execErr,            \* the error ExecuteProgram returned
    finalize,           \* ExecuteProgram returned p.managedFinalize, not nil
    pMu,                \* p.mu: "free" or "goroutine"
    next,               \* the index of the loop's current instruction
    outputChan,         \* p.outputChan: the outputs sent and not yet received
    chanClosed,         \* p.outputChan is closed
    received,           \* the outputs the caller received
    executed,           \* the indices of the instructions executed, in order
    ctxDone,            \* ctx is cancelled
    cancelledAfter,     \* how many instructions had run when ctx was cancelled (-1: not cancelled)
    cancelSeen,         \* the loop indices at whose select ctx.Done() was ready
    soUpdate,           \* "none", or how p.so.Update was reached
    \* ---- MDM program cache (modules/host/mdm/sectors.go) ----
    sectors,            \* the sectors struct: sectorsRemoved, sectorsGained, merkleRoots
    cacheCall,          \* the last call on the program cache and the root it returned
    \* ---- sector metadata file of a storage folder ----
    metaFile,           \* the bytes of the metadata file
    metaCall,           \* the last writeSectorMetadata call: slot, id and count
    \* ---- managedBuildAndPushChunks (modules/renter/uploadheap.go) ----
    bpPc,               \* where the call is: "idle", "files", "push", "managedPush", "done"
    bpCall,             \* the target and the directory heap's peek health
    unfinishedUploadChunks, \* the chunks of the current file still to go through
    built,              \* how many chunks the call has built
    unfinishedChunkHeap,    \* the temporary heap
    worstIgnoredHealth,
    worstLeftOff,       \* the largest health of all that was left off the upload heap
    compaction,         \* the temporary heap before and after the last round's compaction
    dirReinsert,        \* the health the directory was put back with (-1: not put back)
    entries,            \* the file entries of the chunks built: open or closed
    \* ---- managedAddChunksToHeap ----
    acPc,               \* where the call is
    prevHeapLen,        \* its local prevHeapLen
    directoryHeap,      \* r.directoryHeap: the directories in it
    acDir,              \* the directory popped in the current round
    acTemp,             \* the chunks left in the temporary heap of the round
    dirPops,            \* the directories the call has popped
    \* ---- worker cache ----
    atomicCacheUpdating, \* w.atomicCacheUpdating: 1 while an update is in progress
    atomicCache,        \* w.atomicCache: nil or a pointer to a workerCache
    wcPc,               \* where each caller of staticTryUpdateCache is
    wcCache,            \* the local cache of each caller: what staticCache returned
    upd,                \* the goroutine each caller has started: pc and newCache
    now,                \* the time
    killed,             \* managedKill has been called on the worker
    wakePending,        \* an AfterFunc will wake the worker
    \* ---- registry subscriptions of a worker ----
    subPc,              \* where threadedSubscriptionLoop is
    subStop,            \* w.tg.StopChan() is closed
    account,            \* w.staticAccount: balance and pending amounts
    subBudget,          \* budget.Remaining() of the current session
    subStream,          \* the stream of the session is open
    listener,           \* the notification handler is registered
    activeSubscriptions, \* subInfo.activeSubscriptions
    mslReturn,          \* the operand of the return statement of managedSubscriptionLoop
    mslErr,             \* the named result err of managedSubscriptionLoop
    errSubscription,    \* errSubscription of threadedSubscriptionLoop
    subErr,             \* err of threadedSubscriptionLoop
    round,              \* the current iteration: withdrawal committed, deposits made
    rounds,             \* the iterations begun
    \* ---- buildUnfinishedChunks ----
    lastBuild,          \* the last call of buildUnfinishedChunks and its result
    \* ---- threadedUploadAndRepair, the repair thread ----
    urPc,               \* where the thread is
    stopped,            \* the thread group's stop channel is closed
    signals,            \* of newUploads and repairNeeded, the channels that hold a signal
    smallRepair,        \* managedRepairLoop's local
    nextChunk,          \* managedRepairLoop's local: the chunk it popped
    working,            \* the ids of the chunks workers are repairing
    handled             \* what the repair loop did with the last chunk it popped

heapVars == <<heap, repairingChunks, stuckHeapChunks, unstuckHeapChunks, heapCall>>

lockVars == <<walMu, lockedSectors, sectorLocks, pc, lockId, sl, held, collected,
              lockCritical>>

storeVars == <<sectorLocations, subSectorLocations, sectorFile, registered, storeCall>>

mdmVars == <<mdmPc, call, instructions, remainingBudget, budgetBefore, deducted,
             execErr, finalize, pMu, next, outputChan, chanClosed, received,
             executed, ctxDone, cancelledAfter, cancelSeen, soUpdate>>

cacheVars == <<sectors, cacheCall>>

metaVars == <<metaFile, metaCall>>

buildVars == <<bpPc, bpCall, unfinishedUploadChunks, built, unfinishedChunkHeap,
               worstIgnoredHealth, worstLeftOff, compaction, dirReinsert, entries>>

triageVars == <<lastBuild>>

repairVars == <<urPc, stopped, signals, smallRepair, nextChunk, working, handled>>

addVars == <<acPc, prevHeapLen, directoryHeap, acDir, acTemp, dirPops>>

workerVars == <<atomicCacheUpdating, atomicCache, wcPc, wcCache, upd, now, killed,
                wakePending>>

subVars == <<subPc, subStop, account, subBudget, subStream, listener, activeSubscriptions,
             mslReturn, mslErr, errSubscription, subErr, round, rounds>>

vars == <<heapVars, lockVars, storeVars, mdmVars, cacheVars, metaVars, buildVars, triageVars, repairVars, addVars, workerVars, subVars>>

(***************************************************************************)
(* Upload heap: modules/renter/uploadheap.go                               *)
(***************************************************************************)
\* the uploadChunkIDs (fileUID, index) that occur
ChunkIds == {1, 2}

\* unfinishedUploadChunk, reduced to the fields the heap reads
Chunks == [id : ChunkIds, priority : BOOLEAN, stuck : BOOLEAN, health : HealthValues]

\* the nil *unfinishedUploadChunk
NilChunk == [id |-> 0, priority |-> FALSE, stuck |-> FALSE, health |-> 0]

\* Less with the health comparison the wrong way round
Less_HealthReversed(uch, i, j) ==
    LET a == uch[i + 1]
        b == uch[j + 1]
    IN  IF a.priority /\ ~b.priority THEN TRUE
        ELSE IF ~a.priority /\ b.priority THEN FALSE
        ELSE IF a.stuck = b.stuck THEN a.health < b.health
        ELSE IF a.stuck THEN TRUE
        ELSE FALSE

\* Less that compares health before the stuck status
Less_HealthFirst(uch, i, j) ==
    LET a == uch[i + 1]
        b == uch[j + 1]
    IN  IF a.priority /\ ~b.priority THEN TRUE
        ELSE IF ~a.priority /\ b.priority THEN FALSE
        ELSE IF a.health # b.health THEN a.health > b.health
        ELSE a.stuck /\ ~b.stuck

\* uploadChunkHeap.Less(i, j), i and j counted from 0 as in the source
Less(uch, i, j) ==
    LET a == uch[i + 1]
        b == uch[j + 1]
    IN  IF a.priority /\ ~b.priority THEN TRUE
        ELSE IF ~a.priority /\ b.priority THEN FALSE
        ELSE IF a.stuck = b.stuck THEN a.health > b.health
        ELSE IF a.stuck THEN TRUE
        ELSE FALSE

\* uploadChunkHeap.Swap(i, j)
Swap(uch, i, j) == [uch EXCEPT ![i + 1] = uch[j + 1], ![j + 1] = uch[i + 1]]

\* container/heap up(h, j): sift the element at j towards the root
RECURSIVE up(_, _)
up(uch, j) ==
    LET i == (j - 1) \div 2   \* parent
    IN  IF j = 0 \/ i = j \/ ~Less(uch, j, i) THEN uch
        ELSE up(Swap(uch, i, j), i)

\* container/heap down(h, i0, n): sift the element at i towards the leaves
RECURSIVE down(_, _, _)
down(uch, i, n) ==
    LET j1 == 2 * i + 1
        j  == IF j1 + 1 < n /\ Less(uch, j1 + 1, j1) THEN j1 + 1 ELSE j1
    IN  IF j1 >= n THEN uch
        ELSE IF ~Less(uch, j, i) THEN uch
        ELSE down(Swap(uch, i, j), j, n)

\* heap.Push(&uh.heap, uuc): uploadChunkHeap.Push appends, then up(Len-1)
heapPush(uch, uuc) == up(Append(uch, uuc), Len(uch))

\* heap.Pop(&uh.heap): Swap(0, n), down(0, n), then uploadChunkHeap.Pop takes
\* the last element off.  The result is <<remaining heap, popped chunk>>.
heapPop(uch) ==
    LET n == Len(uch) - 1
        h == down(Swap(uch, 0, n), 0, n)
    IN  <<SubSeq(h, 1, n), h[n + 1]>>

\* managedPush without the cap on stuck chunks
canAddStuckChunk_NoCap(uuc) ==
    /\ uuc.stuck
    /\ uuc.id \notin stuckHeapChunks
    /\ uuc.id \notin repairingChunks

\* managedPush: canAddStuckChunk
canAddStuckChunk(uuc) ==
    /\ uuc.stuck
    /\ uuc.id \notin stuckHeapChunks
    /\ uuc.id \notin repairingChunks
    /\ Cardinality(stuckHeapChunks) < maxStuckChunksInHeap

\* managedPush: canAddUnstuckChunk
canAddUnstuckChunk(uuc) ==
    /\ ~uuc.stuck
    /\ uuc.id \notin unstuckHeapChunks
    /\ uuc.id \notin repairingChunks

\* uploadHeap.managedPush(uuc); the model follows the heap up to MaxHeapLen
\* chunks
managedPush(uuc) ==
        /\ Len(heap) < MaxHeapLen
        /\ IF canAddStuckChunk(uuc)
           THEN /\ stuckHeapChunks' = stuckHeapChunks \cup {uuc.id}
                /\ heap' = heapPush(heap, uuc)
                /\ UNCHANGED <<unstuckHeapChunks, repairingChunks>>
                /\ heapCall' = [op |-> "push", uuc |-> uuc, ret |-> TRUE, critical |-> FALSE]
           ELSE IF canAddUnstuckChunk(uuc)
           THEN /\ unstuckHeapChunks' = unstuckHeapChunks \cup {uuc.id}
                /\ heap' = heapPush(heap, uuc)
                /\ UNCHANGED <<stuckHeapChunks, repairingChunks>>
                /\ heapCall' = [op |-> "push", uuc |-> uuc, ret |-> TRUE, critical |-> FALSE]
           ELSE /\ UNCHANGED <<heap, stuckHeapChunks, unstuckHeapChunks, repairingChunks>>
                /\ heapCall' = [op |-> "push", uuc |-> uuc, ret |-> FALSE, critical |-> FALSE]

\* uploadHeap.managedPop()
managedPop ==
    IF Len(heap) > 0
    THEN LET p  == heapPop(heap)
             uc == p[2]
         IN  /\ heap' = p[1]
             /\ unstuckHeapChunks' = unstuckHeapChunks \ {uc.id}
             /\ stuckHeapChunks' = stuckHeapChunks \ {uc.id}
             /\ repairingChunks' = repairingChunks \cup {uc.id}
             \* build.Critical fires when the id is already being repaired
             /\ heapCall' = [op |-> "pop", uuc |-> uc, ret |-> TRUE,
                             critical |-> uc.id \in repairingChunks]
    ELSE /\ UNCHANGED <<heap, stuckHeapChunks, unstuckHeapChunks, repairingChunks>>
         /\ heapCall' = [op |-> "pop", uuc |-> NilChunk, ret |-> FALSE, critical |-> FALSE]

\* uploadHeap.managedMarkRepairDone(id)
managedMarkRepairDone(id) ==
    /\ repairingChunks' = repairingChunks \ {id}
    /\ UNCHANGED <<heap, stuckHeapChunks, unstuckHeapChunks>>
    /\ heapCall' = [op |-> "done", uuc |-> [NilChunk EXCEPT !.id = id], ret |-> TRUE,
                    critical |-> id \notin repairingChunks]

\* uploadHeap.managedReset(): both heap maps are replaced and the heap is
\* emptied by uploadChunkHeap.reset; repairingChunks is left alone
managedReset ==
    /\ unstuckHeapChunks' = {}
    /\ stuckHeapChunks' = {}
    /\ heap' = <<>>
    /\ UNCHANGED repairingChunks
    /\ heapCall' = [op |-> "reset", uuc |-> NilChunk, ret |-> TRUE, critical |-> FALSE]

HeapInit ==
    /\ heap = <<>>
    /\ repairingChunks = {}
    /\ stuckHeapChunks = {}
    /\ unstuckHeapChunks = {}
    /\ heapCall = [op |-> "new", uuc |-> NilChunk, ret |-> TRUE, critical |-> FALSE]

\* what the upload heap's operations leave alone
heapFrame == <<lockVars, storeVars, mdmVars, cacheVars, metaVars, buildVars, triageVars, repairVars, addVars, workerVars, subVars>>

Push == (\E uuc \in Chunks : managedPush(uuc)) /\ UNCHANGED heapFrame
Pop == managedPop /\ UNCHANGED heapFrame
MarkRepairDone == (\E id \in ChunkIds : managedMarkRepairDone(id)) /\ UNCHANGED heapFrame
Reset == managedReset /\ UNCHANGED heapFrame

HeapNext == Push \/ Pop \/ MarkRepairDone \/ Reset

(***************************************************************************)
(* Per-sector locks: writeAheadLog.managedLockSector / managedUnlockSector *)
(* Every statement that blocks or that another goroutine can observe is a  *)
(* step of its own.                                                        *)
(***************************************************************************)
Threads == 1..NumThreads

\* the sector ids that are locked
SectorIds == {1, 2}

\* addresses for sectorLock objects: never more are live than there are
\* table entries and goroutines
LockObjs == 1..(NumThreads + Cardinality(SectorIds))

\* a sectorLock that nothing refers to
FreeLock == [waiting |-> 0, mu |-> 0]

\* the sectorLock objects something still refers to
LiveLocks ==
    {lockedSectors[id] : id \in SectorIds} \cup {sl[t] : t \in Threads}
    \cup {held[t] : t \in Threads}

\* &sectorLock{...}: a new object, distinct from every live one
NewLock == CHOOSE o \in LockObjs \ LiveLocks : \A q \in LockObjs \ LiveLocks : o <= q

\* a goroutine calls managedLockSector: it stands at wal.mu.Lock() of line
\* 321 until wal.mu is free
LockSector_call(t) ==
    /\ pc[t] = "idle"
    /\ pc' = [pc EXCEPT ![t] = "lk_walLock"]
    /\ UNCHANGED <<walMu, lockedSectors, sectorLocks, lockId, sl, held, collected,
                   lockCritical>>

\* managedLockSector line 321: wal.mu.Lock() returns; id is the argument of
\* the call
LockSector_walLock(t, id) ==
    /\ pc[t] = "lk_walLock"
    /\ walMu = 0
    /\ walMu' = t
    /\ lockId' = [lockId EXCEPT ![t] = id]
    /\ pc' = [pc EXCEPT ![t] = "lk_register"]
    /\ UNCHANGED <<lockedSectors, sectorLocks, sl, held, collected, lockCritical>>

\* managedLockSector lines 322-330: waiting++ on the entry, or a new entry
LockSector_register(t) ==
    /\ pc[t] = "lk_register"
    /\ IF lockedSectors[lockId[t]] # 0
       THEN LET o == lockedSectors[lockId[t]]
            IN  /\ sectorLocks' = [sectorLocks EXCEPT ![o].waiting = @ + 1]
                /\ sl' = [sl EXCEPT ![t] = o]
                /\ UNCHANGED lockedSectors
       ELSE LET o == NewLock
            IN  /\ sectorLocks' = [sectorLocks EXCEPT ![o] = [waiting |-> 1, mu |-> 0]]
                /\ lockedSectors' = [lockedSectors EXCEPT ![lockId[t]] = o]
                /\ sl' = [sl EXCEPT ![t] = o]
    /\ pc' = [pc EXCEPT ![t] = "lk_walUnlock"]
    /\ UNCHANGED <<walMu, lockId, held, collected, lockCritical>>

\* managedLockSector line 331: wal.mu.Unlock()
LockSector_walUnlock(t) ==
    /\ pc[t] = "lk_walUnlock"
    /\ walMu' = 0
    /\ pc' = [pc EXCEPT ![t] = "lk_muLock"]
    /\ UNCHANGED <<lockedSectors, sectorLocks, lockId, sl, held, collected, lockCritical>>

\* managedLockSector line 334: sl.mu.Lock() blocks until the mutex is free;
\* the function returns and its local sl is gone
LockSector_muLock(t) ==
    /\ pc[t] = "lk_muLock"
    /\ sectorLocks[sl[t]].mu = 0
    /\ sectorLocks' = [sectorLocks EXCEPT ![sl[t]].mu = t]
    /\ held' = [held EXCEPT ![t] = sl[t]]
    /\ sl' = [sl EXCEPT ![t] = 0]
    /\ pc' = [pc EXCEPT ![t] = "holding"]
    /\ UNCHANGED <<walMu, lockedSectors, lockId, collected, lockCritical>>

\* managedUnlockSector line 339: wal.mu.Lock(), called by the holder
UnlockSector_walLock(t) ==
    /\ pc[t] = "holding"
    /\ walMu = 0
    /\ walMu' = t
    /\ pc' = [pc EXCEPT ![t] = "ul_lookup"]
    /\ UNCHANGED <<lockedSectors, sectorLocks, lockId, sl, held, collected, lockCritical>>

\* managedUnlockSector lines 343-347: look the entry up; Critical and return
\* when there is none
UnlockSector_lookup(t) ==
    /\ pc[t] = "ul_lookup"
    /\ IF lockedSectors[lockId[t]] = 0
       THEN /\ lockCritical' = TRUE
            /\ pc' = [pc EXCEPT ![t] = "ul_return"]
            /\ UNCHANGED sl
       ELSE /\ sl' = [sl EXCEPT ![t] = lockedSectors[lockId[t]]]
            /\ pc' = [pc EXCEPT ![t] = "ul_decrement"]
            /\ UNCHANGED lockCritical
    /\ UNCHANGED <<walMu, lockedSectors, sectorLocks, lockId, held, collected>>

\* managedUnlockSector without the sl.waiting-- of line 348
UnlockSector_decrement_Skipped(t) ==
    /\ pc[t] = "ul_decrement"
    /\ pc' = [pc EXCEPT ![t] = "ul_muUnlock"]
    /\ UNCHANGED <<walMu, lockedSectors, sectorLocks, lockId, sl, held, collected,
                   lockCritical>>

\* managedUnlockSector line 348: sl.waiting--
UnlockSector_decrement(t) ==
    /\ pc[t] = "ul_decrement"
    /\ sectorLocks' = [sectorLocks EXCEPT ![sl[t]].waiting = @ - 1]
    /\ pc' = [pc EXCEPT ![t] = "ul_muUnlock"]
    /\ UNCHANGED <<walMu, lockedSectors, lockId, sl, held, collected, lockCritical>>

\* managedUnlockSector without the sl.mu.Unlock() of line 349
UnlockSector_muUnlock_Skipped(t) ==
    /\ pc[t] = "ul_muUnlock"
    /\ pc' = [pc EXCEPT ![t] = "ul_gc"]
    /\ UNCHANGED <<walMu, lockedSectors, sectorLocks, lockId, sl, held, collected,
                   lockCritical>>

\* managedUnlockSector line 349: sl.mu.Unlock() on the entry's mutex
UnlockSector_muUnlock(t) ==
    /\ pc[t] = "ul_muUnlock"
    /\ sectorLocks' = [sectorLocks EXCEPT ![sl[t]].mu = 0]
    /\ held' = [u \in Threads |-> IF held[u] = sl[t] THEN 0 ELSE held[u]]
    /\ pc' = [pc EXCEPT ![t] = "ul_gc"]
    /\ UNCHANGED <<walMu, lockedSectors, lockId, sl, collected, lockCritical>>

\* the garbage collection without its waiting == 0 test
gcNeeded_Always(t) == TRUE

\* managedUnlockSector line 352: if sl.waiting == 0
gcNeeded(t) == sectorLocks[sl[t]].waiting = 0

\* managedUnlockSector lines 352-354: delete the entry when nobody waits
UnlockSector_gc(t) ==
    /\ pc[t] = "ul_gc"
    /\ IF gcNeeded(t)
       THEN /\ lockedSectors' = [lockedSectors EXCEPT ![lockId[t]] = 0]
            /\ collected' = collected \cup {lockId[t]}
       ELSE UNCHANGED <<lockedSectors, collected>>
    /\ pc' = [pc EXCEPT ![t] = "ul_return"]
    /\ UNCHANGED <<walMu, sectorLocks, lockId, sl, held, lockCritical>>

\* managedUnlockSector line 340: the deferred wal.mu.Unlock(), and the return
UnlockSector_return(t) ==
    /\ pc[t] = "ul_return"
    /\ walMu' = 0
    /\ sl' = [sl EXCEPT ![t] = 0]
    /\ lockId' = [lockId EXCEPT ![t] = 0]
    /\ held' = [held EXCEPT ![t] = 0]
    /\ pc' = [pc EXCEPT ![t] = "idle"]
    /\ UNCHANGED <<lockedSectors, sectorLocks, collected, lockCritical>>

LockInit ==
    /\ walMu = 0
    /\ lockedSectors = [id \in SectorIds |-> 0]
    /\ sectorLocks = [o \in LockObjs |-> FreeLock]
    /\ pc = [t \in Threads |-> "idle"]
    /\ lockId = [t \in Threads |-> 0]
    /\ sl = [t \in Threads |-> 0]
    /\ held = [t \in Threads |-> 0]
    /\ collected = {}
    /\ lockCritical = FALSE

\* what the lock operations leave alone
lockFrame == <<heapVars, storeVars, mdmVars, cacheVars, metaVars, buildVars, triageVars, repairVars, addVars, workerVars, subVars>>

LockCall == (\E t \in Threads : LockSector_call(t)) /\ UNCHANGED lockFrame
LockWalLock == (\E t \in Threads, id \in SectorIds : LockSector_walLock(t, id)) /\ UNCHANGED lockFrame
LockRegister == (\E t \in Threads : LockSector_register(t)) /\ UNCHANGED lockFrame
LockWalUnlock == (\E t \in Threads : LockSector_walUnlock(t)) /\ UNCHANGED lockFrame
LockMuLock == (\E t \in Threads : LockSector_muLock(t)) /\ UNCHANGED lockFrame
UnlockWalLock == (\E t \in Threads : UnlockSector_walLock(t)) /\ UNCHANGED lockFrame
UnlockLookup == (\E t \in Threads : UnlockSector_lookup(t)) /\ UNCHANGED lockFrame
UnlockDecrement == (\E t \in Threads : UnlockSector_decrement(t)) /\ UNCHANGED lockFrame
UnlockMuUnlock == (\E t \in Threads : UnlockSector_muUnlock(t)) /\ UNCHANGED lockFrame
UnlockGc == (\E t \in Threads : UnlockSector_gc(t)) /\ UNCHANGED lockFrame
UnlockReturn == (\E t \in Threads : UnlockSector_return(t)) /\ UNCHANGED lockFrame

LockNext ==
    \/ LockCall \/ LockWalLock \/ LockRegister \/ LockWalUnlock \/ LockMuLock
    \/ UnlockWalLock \/ UnlockLookup \/ UnlockDecrement \/ UnlockMuUnlock
    \/ UnlockGc \/ UnlockReturn

(***************************************************************************)
(* Sector store: ContractManager.deleteSector, SetSubSector, ReadSector,   *)
(* ReadPartialSector.  Each call runs under the lock of its sector and is  *)
(* one step.                                                               *)
(***************************************************************************)
Bytes == {0, 1}

\* the contents of a whole sector
SectorData == [1..SectorSize -> Bytes]

\* the contents of a sector or of a part of one
AllData == UNION {[1..n -> Bytes] : n \in 0..SectorSize}

Uint32 == 0..(TwoPow32 - 1)
Uint64 == 0..(TwoPow64 - 1)

\* crypto.MerkleRoot(data): a collision-free hash, here the number whose
\* base-3 digits are the bytes plus one
RECURSIVE MerkleRoot(_)
MerkleRoot(data) ==
    IF data = <<>> THEN 0
    ELSE (data[1] + 1) + 3 * MerkleRoot(Tail(data))

Roots == {MerkleRoot(d) : d \in AllData}

\* ContractManager.managedSectorID(root): the salted, truncated hash
managedSectorID(root) == root + sectorSalt

Slots == 0..(NumSlots - 1)

Result(err, data) == [err |-> err, data |-> data]

\* readPartialSector(f, sectorIndex, offset, length): the bounds test is done
\* in 64-bit arithmetic; a read that passes it and still leaves the sector
\* reads whatever follows the sector in the file
readPartialSector(sectorIndex, offset, length) ==
    IF (offset + length) % TwoPow64 > SectorSize
    THEN Result("out of bounds", <<>>)
    ELSE IF offset + length > SectorSize
    THEN Result("overrun", <<>>)
    ELSE Result("nil", SubSeq(sectorFile[sectorIndex], offset + 1, offset + length))

\* ContractManager.managedReadPartialSector(root, sl, offset, length) with the
\* storage folder of sl present and available
managedReadPartialSector(slc, offset, length) ==
    readPartialSector(slc.index, offset, length)

\* ReadSector that reads a whole sector's length from a sub-sector's offset
ReadSector_FullLength(root) ==
    LET id      == managedSectorID(root)
        exists1 == id \in DOMAIN sectorLocations
        exists2 == id \in DOMAIN subSectorLocations
        ssls    == IF exists2 THEN subSectorLocations[id] ELSE <<>>
        exists3 == Len(ssls) > 0 /\ ssls[1].parent \in DOMAIN sectorLocations
    IN  IF ~exists1 /\ ~exists2 THEN Result("ErrSectorNotFound", <<>>)
        ELSE IF exists2 /\ ~exists3 THEN Result("found subsector but not parent", <<>>)
        ELSE IF exists2
        THEN managedReadPartialSector(sectorLocations[ssls[1].parent],
                                      ssls[1].offset, SectorSize)
        ELSE managedReadPartialSector(sectorLocations[id], 0, SectorSize)

\* ContractManager.ReadSector(root)
ReadSector(root) ==
    LET id      == managedSectorID(root)
        exists1 == id \in DOMAIN sectorLocations
        exists2 == id \in DOMAIN subSectorLocations
        ssls    == IF exists2 THEN subSectorLocations[id] ELSE <<>>
        exists3 == Len(ssls) > 0 /\ ssls[1].parent \in DOMAIN sectorLocations
    IN  IF ~exists1 /\ ~exists2 THEN Result("ErrSectorNotFound", <<>>)
        ELSE IF exists2 /\ ~exists3 THEN Result("found subsector but not parent", <<>>)
        ELSE IF exists2
        THEN managedReadPartialSector(sectorLocations[ssls[1].parent],
                                      ssls[1].offset, ssls[1].length)
        ELSE managedReadPartialSector(sectorLocations[id], 0, SectorSize)

\* ContractManager.ReadPartialSector(root, offset, length)
ReadPartialSector(root, offset, length) ==
    LET id      == managedSectorID(root)
        exists1 == id \in DOMAIN sectorLocations
        exists2 == id \in DOMAIN subSectorLocations
        ssls    == IF exists2 THEN subSectorLocations[id] ELSE <<>>
        exists3 == Len(ssls) > 0 /\ ssls[1].parent \in DOMAIN sectorLocations
    IN  IF ~exists1 /\ ~exists2 THEN Result("ErrSectorNotFound", <<>>)
        ELSE IF exists2 /\ ~exists3 THEN Result("found subsector but not parent", <<>>)
        ELSE IF exists2
        THEN managedReadPartialSector(sectorLocations[ssls[1].parent],
                                      (offset + ssls[1].offset) % TwoPow64, length)
        ELSE managedReadPartialSector(sectorLocations[id], offset, length)

\* ContractManager.HasSector(root)
HasSector(root) == managedSectorID(root) \in DOMAIN sectorLocations

\* the entries of child that deleteSector(id) keeps
newSSLs(id, childID) ==
    SelectSeq(subSectorLocations[childID], LAMBDA ssl : ssl.parent # id)

\* deleteSector that forgets the children
deleteSector_KeepsChildren(id) ==
    IF id \notin DOMAIN sectorLocations
    THEN <<sectorLocations, subSectorLocations>>
    ELSE << [x \in DOMAIN sectorLocations \ {id} |-> sectorLocations[x]],
            subSectorLocations >>

\* ContractManager.deleteSector(id): the maps <<sectorLocations,
\* subSectorLocations>> after the call
deleteSector(id) ==
    IF id \notin DOMAIN sectorLocations
    THEN <<sectorLocations, subSectorLocations>>
    ELSE LET children == sectorLocations[id].children \cap DOMAIN subSectorLocations
             emptied  == {c \in children : Len(newSSLs(id, c)) = 0}
         IN  << [x \in DOMAIN sectorLocations \ {id} |-> sectorLocations[x]],
                [c \in DOMAIN subSectorLocations \ emptied |->
                    IF c \in children THEN newSSLs(id, c) ELSE subSectorLocations[c]] >>

\* the number of sub-sector entries tracked
NumSubSectors ==
    Cardinality(UNION {{c} \X (1..Len(subSectorLocations[c])) : c \in DOMAIN subSectorLocations})

\* what a call leaves in storeCall
StoreCall(op, id, orphans, kept) == [op |-> op, id |-> id, orphans |-> orphans, kept |-> kept]

\* ContractManager.SetSubSector(root, offset, length)
SetSubSector(root, offset, length) ==
    LET id   == managedSectorID(root)
        slc  == sectorLocations[id]
        read == IF id \in DOMAIN sectorLocations
                THEN managedReadPartialSector(slc, offset, length)
                ELSE Result("ErrSectorNotFound", <<>>)
    IN  /\ NumSubSectors < MaxSubSectors
        /\ storeCall' = StoreCall("SetSubSector", id, {}, <<>>)
        /\ IF read.err # "nil"
           THEN UNCHANGED <<sectorLocations, subSectorLocations, sectorFile, registered>>
           ELSE LET subRoot == MerkleRoot(read.data)
                    subID   == managedSectorID(subRoot)
                    entry   == [offset |-> offset, length |-> length, parent |-> id]
                    old     == IF subID \in DOMAIN subSectorLocations
                               THEN subSectorLocations[subID] ELSE <<>>
                IN  /\ subSectorLocations' =
                          [c \in DOMAIN subSectorLocations \cup {subID} |->
                              IF c = subID THEN Append(old, entry)
                              ELSE subSectorLocations[c]]
                    /\ sectorLocations' =
                          [sectorLocations EXCEPT ![id].children = @ \cup {subID}]
                    /\ registered' = registered \cup
                          {[parent |-> root, offset |-> offset, length |-> length,
                            child |-> subRoot]}
                    /\ UNCHANGED sectorFile

\* the free slots of the sector file
FreeSlots == Slots \ {sectorLocations[x].index : x \in DOMAIN sectorLocations}

\* add_sector(root, data) with root the Merkle root of data: a stored sector
\* gains a virtual sector, a new one is written to the lowest free slot
AddSector(data) ==
    LET root == MerkleRoot(data)
        id   == managedSectorID(root)
    IN  /\ storeCall' = StoreCall("AddSector", id, {}, <<>>)
        /\ IF id \in DOMAIN sectorLocations
           THEN IF sectorLocations[id].count >= maxVirtualSectors
                THEN UNCHANGED <<sectorLocations, subSectorLocations, sectorFile, registered>>
                ELSE /\ sectorLocations' = [sectorLocations EXCEPT ![id].count = @ + 1]
                     /\ UNCHANGED <<subSectorLocations, sectorFile, registered>>
           ELSE IF FreeSlots = {}
           THEN UNCHANGED <<sectorLocations, subSectorLocations, sectorFile, registered>>
           ELSE LET slot == CHOOSE f \in FreeSlots : \A g \in FreeSlots : f <= g
                IN  /\ sectorFile' = [sectorFile EXCEPT ![slot] = data]
                    /\ sectorLocations' =
                          [x \in DOMAIN sectorLocations \cup {id} |->
                              IF x = id THEN [index |-> slot, count |-> 1, children |-> {}]
                              ELSE sectorLocations[x]]
                    /\ UNCHANGED <<subSectorLocations, registered>>

\* delete_sector(root): one virtual sector less; the last one gone, the
\* location is deleted with deleteSector(id).  storeCall keeps, from the maps
\* before the call, the children all of whose entries had this parent and
\* the other parents' entries of the remaining children.
RemoveSector(root) ==
    LET id == managedSectorID(root)
    IN  /\ id \in DOMAIN sectorLocations
        /\ IF sectorLocations[id].count > 1
           THEN /\ sectorLocations' = [sectorLocations EXCEPT ![id].count = @ - 1]
                /\ storeCall' = StoreCall("RemoveSector", id, {}, <<>>)
                /\ UNCHANGED <<subSectorLocations, sectorFile, registered>>
           ELSE LET after == deleteSector(id)
                    kids  == {c \in DOMAIN subSectorLocations :
                                 \E k \in 1..Len(subSectorLocations[c]) :
                                     subSectorLocations[c][k].parent = id}
                    only  == {c \in kids :
                                 \A k \in 1..Len(subSectorLocations[c]) :
                                     subSectorLocations[c][k].parent = id}
                IN  /\ sectorLocations' = after[1]
                    /\ subSectorLocations' = after[2]
                    /\ registered' = {r \in registered : r.parent # root}
                    /\ storeCall' = StoreCall("deleteSector", id, only,
                                       [c \in kids \ only |->
                                           SelectSeq(subSectorLocations[c],
                                                     LAMBDA e : e.parent # id)])
                    /\ UNCHANGED sectorFile

StoreInit ==
    /\ sectorLocations = <<>>
    /\ subSectorLocations = <<>>
    /\ sectorFile = [f \in Slots |-> <<>>]
    /\ registered = {}
    /\ storeCall = StoreCall("new", 0, {}, <<>>)

\* what the sector store's operations leave alone
storeFrame == <<heapVars, lockVars, mdmVars, cacheVars, metaVars, buildVars, triageVars, repairVars, addVars, workerVars, subVars>>

\* the sectors the renter uploads: two that share their first byte
UploadedData == {<<0, 0>>, <<0, 1>>}

\* the offsets and lengths SetSubSector is called with: every range inside
\* a sector and the ranges that leave it
SubSectorArgs == 0..SectorSize

\* the roots calls are made with: the uploaded sectors and a root that is
\* only ever the root of a sub-sector
RequestRoots == {MerkleRoot(d) : d \in UploadedData} \cup {MerkleRoot(<<0>>)}

StoreAdd == (\E data \in UploadedData : AddSector(data)) /\ UNCHANGED storeFrame
StoreRemove == (\E root \in RequestRoots : RemoveSector(root)) /\ UNCHANGED storeFrame
StoreSetSubSector ==
    (\E root \in RequestRoots, offset, length \in SubSectorArgs :
        SetSubSector(root, offset, length))
    /\ UNCHANGED storeFrame

StoreNext == StoreAdd \/ StoreRemove \/ StoreSetSubSector

(***************************************************************************)
(* MDM program engine: MDM.ExecuteProgram, its execution goroutine,        *)
(* Program.managedFinalize and Cost.Sub.  One program is executed.         *)
(***************************************************************************)
\* the instruction specifiers a renter sends: the read instruction, a write
\* instruction and one the host does not know
Specifiers == {"ReadSector", "Append", "Unknown"}

\* the specifiers ExecuteProgram decodes besides modules.SpecifierReadSector
WriteSpecifiers == {"Append"}

\* instruction.ReadOnly() of a decoded instruction
instrReadOnly(specifier) == specifier \notin WriteSpecifiers

\* the programs of at most MaxInstructions instructions
Programs == UNION {[1..n -> Specifiers] : n \in 0..MaxInstructions}

CostFields == {"Compute", "DiskAccesses", "DiskRead", "DiskWrite", "Memory"}

\* the budgets a program is started with
Budgets == [Compute : {0, 1, 3}, DiskAccesses : {0, 3}, DiskRead : {3},
            DiskWrite : {0}, Memory : {0, 7}]

\* the lengths of the program data
ProgramDataLens == {0, 1}

\* the helper of Cost.Sub: a - b in 64 bits, and whether it did not underflow
min(a, b) == <<(a - b) % TwoPow64, b <= a>>

\* Cost.Sub(c2) on c: <<cost, ok>>; all five subtractions take the Compute
\* fields, as in the source
Sub(c, c2) ==
    LET r1 == min(c.Compute, c2.Compute)
        r2 == min(c.Compute, c2.Compute)
        r3 == min(c.Compute, c2.Compute)
        r4 == min(c.Compute, c2.Compute)
        r5 == min(c.Compute, c2.Compute)
    IN  << [Compute |-> r1[1], DiskAccesses |-> r2[1], DiskRead |-> r3[1],
            DiskWrite |-> r4[1], Memory |-> r5[1]],
           r1[2] /\ r2[2] /\ r3[2] /\ r4[2] /\ r5[2] >>

\* InitCost(programLen); 1<<22 is the sector size
InitCost(programLen) ==
    [Compute |-> 1, DiskAccesses |-> 1, DiskRead |-> 0, DiskWrite |-> 0,
     Memory |-> (SectorSize + programLen) % TwoPow64]

\* ReadSectorCost()
ReadSectorCost ==
    [Compute |-> 1, DiskAccesses |-> 1, DiskRead |-> SectorSize, DiskWrite |-> 0,
     Memory |-> SectorSize]

\* WriteSectorCost(contractSize) for the empty contract the program starts on
WriteSectorCost ==
    [Compute |-> 1, DiskAccesses |-> 1, DiskRead |-> SectorSize,
     DiskWrite |-> SectorSize, Memory |-> SectorSize]

\* the cost an instruction declares
InstrCost(specifier) ==
    IF specifier = "ReadSector" THEN ReadSectorCost ELSE WriteSectorCost

\* the conversion loop of ExecuteProgram: the instructions decoded before the
\* first unknown specifier, and the error of that one
RECURSIVE decode(_)
decode(instrs) ==
    IF instrs = <<>> THEN [err |-> "nil", instructions |-> <<>>]
    ELSE IF Head(instrs) \notin {"ReadSector"} \cup WriteSpecifiers
    THEN [err |-> "unknown instruction specifier", instructions |-> <<>>]
    ELSE LET rest == decode(Tail(instrs))
         IN  [err |-> rest.err,
              instructions |-> <<Head(instrs)>> \o rest.instructions]

\* Program.readOnly()
readOnly(instrs) == \A k \in 1..Len(instrs) : instrReadOnly(instrs[k])

\* ExecuteProgram that never asks for the contract lock
lockMissing_Never(instrs, locked) == FALSE

\* ExecuteProgram line 97: !p.readOnly() && !p.so.Locked()
lockMissing(instrs, locked) == ~readOnly(instrs) /\ ~locked

\* MDM.ExecuteProgram up to its return: the error, p.instructions, the
\* remaining budget, whether the goroutine was started and whether a
\* finalize function is returned
executeProgram(instrs, budget, locked, programDataLen, tgStopped) ==
    LET d   == decode(instrs)
        sub == Sub(budget, InitCost(programDataLen))
        out(err, rem, ded, started, fin) ==
            [err |-> err, instructions |-> d.instructions, remainingBudget |-> rem,
             deducted |-> ded, started |-> started, finalize |-> fin]
    IN  IF d.err # "nil" THEN out(d.err, budget, "none", FALSE, FALSE)
        ELSE IF lockMissing(d.instructions, locked)
        THEN out("contract needs to be locked", budget, "none", FALSE, FALSE)
        ELSE IF ~sub[2]
        THEN out("ErrInsufficientBudget", sub[1], "underflow", FALSE, FALSE)
        ELSE IF tgStopped
        THEN out("ErrStopped", sub[1], "ok", FALSE, FALSE)
        ELSE out("nil", sub[1], "ok", TRUE, ~readOnly(d.instructions))

\* the call of ExecuteProgram
ExecuteProgram(instrs, budget, locked, programDataLen, tgStopped) ==
    LET r == executeProgram(instrs, budget, locked, programDataLen, tgStopped)
    IN  /\ mdmPc = "new"
        /\ call' = [instructions |-> instrs, budget |-> budget, locked |-> locked,
                    programDataLen |-> programDataLen, tgStopped |-> tgStopped]
        /\ instructions' = r.instructions
        /\ remainingBudget' = r.remainingBudget
        /\ budgetBefore' = budget
        /\ deducted' = r.deducted
        /\ execErr' = r.err
        /\ finalize' = r.finalize
        /\ mdmPc' = IF r.started THEN "go_lock" ELSE "failed"
        /\ UNCHANGED <<pMu, next, outputChan, chanClosed, received, executed,
                       ctxDone, cancelledAfter, cancelSeen, soUpdate>>

\* the goroutine's p.mu.Lock() (line 114) and the start of the loop
Go_lock ==
    /\ mdmPc = "go_lock"
    /\ pMu = "free"
    /\ pMu' = "goroutine"
    /\ next' = 0
    /\ mdmPc' = IF Len(instructions) = 0 THEN "go_return" ELSE "go_select"
    /\ UNCHANGED <<call, instructions, remainingBudget, budgetBefore, deducted,
                   execErr, finalize, outputChan, chanClosed, received, executed,
                   ctxDone, cancelledAfter, cancelSeen, soUpdate>>

\* lines 118-122: the select on ctx.Done(); its break leaves the select, not
\* the loop, so the loop goes on to execute the instruction either way
Go_select ==
    /\ mdmPc = "go_select"
    /\ cancelSeen' = IF ctxDone THEN cancelSeen \cup {next} ELSE cancelSeen
    /\ mdmPc' = "go_execute"
    /\ UNCHANGED <<call, instructions, remainingBudget, budgetBefore, deducted,
                   execErr, finalize, pMu, next, outputChan, chanClosed, received,
                   executed, ctxDone, cancelledAfter, soUpdate>>

\* instruction.Execute: the declared cost is deducted first and an underflow
\* is the output's error; otherwise the host may fail the instruction.
\* The result is <<output, remaining budget, deduction>>.
Execute(k, hostFails) ==
    LET sub == Sub(remainingBudget, InstrCost(instructions[k + 1]))
    IN  IF ~sub[2]
        THEN <<[instr |-> k, error |-> "ErrInsufficientBudget"], remainingBudget, "underflow">>
        ELSE <<[instr |-> k, error |-> IF hostFails THEN "failed" ELSE "nil"],
               sub[1], "ok">>

\* the loop that goes on after an output with an error
abortAfter_Never(output) == FALSE

\* line 128: if output.Error != nil { break }
abortAfter(output) == output.error # "nil"

\* a channel with room for one output less
chanCap_OneLess(instrs) == Len(instrs) - 1

\* line 69: make(chan Output, len(instructions))
chanCap(instrs) == Len(instrs)

\* lines 124-130: execute the instruction, send its output (the send waits
\* while the channel is full), stop on an error
Go_execute(hostFails) ==
    LET r == Execute(next, hostFails)
    IN  /\ mdmPc = "go_execute"
        /\ Len(outputChan) < chanCap(call.instructions)
        /\ executed' = Append(executed, next)
        /\ outputChan' = Append(outputChan, r[1])
        /\ budgetBefore' = remainingBudget
        /\ remainingBudget' = r[2]
        /\ deducted' = r[3]
        /\ IF abortAfter(r[1]) \/ next + 1 >= Len(instructions)
           THEN mdmPc' = "go_return" /\ UNCHANGED next
           ELSE mdmPc' = "go_select" /\ next' = next + 1
        /\ UNCHANGED <<call, instructions, execErr, finalize, pMu, chanClosed,
                       received, ctxDone, cancelledAfter, cancelSeen, soUpdate>>

\* the goroutine's deferred calls: p.mu.Unlock(), close(p.outputChan)
Go_return ==
    /\ mdmPc = "go_return"
    /\ pMu' = "free"
    /\ chanClosed' = TRUE
    /\ mdmPc' = "go_done"
    /\ UNCHANGED <<call, instructions, remainingBudget, budgetBefore, deducted,
                   execErr, finalize, next, outputChan, received, executed,
                   ctxDone, cancelledAfter, cancelSeen, soUpdate>>

\* the caller takes the next output off the channel
ReceiveOutput ==
    /\ outputChan # <<>>
    /\ received' = Append(received, Head(outputChan))
    /\ outputChan' = Tail(outputChan)
    /\ UNCHANGED <<mdmPc, call, instructions, remainingBudget, budgetBefore,
                   deducted, execErr, finalize, pMu, next, chanClosed, executed,
                   ctxDone, cancelledAfter, cancelSeen, soUpdate>>

\* the caller cancels ctx
CancelCtx ==
    /\ ~ctxDone
    /\ ctxDone' = TRUE
    /\ cancelledAfter' = Len(executed)
    /\ UNCHANGED <<mdmPc, call, instructions, remainingBudget, budgetBefore,
                   deducted, execErr, finalize, pMu, next, outputChan, chanClosed,
                   received, executed, cancelSeen, soUpdate>>

\* Program.managedFinalize(), called through the function ExecuteProgram
\* returned: under p.mu it calls p.so.Update.  soUpdate keeps whether an
\* update was made after the loop had seen the cancellation of a context
\* cancelled in mid-program.
managedFinalize ==
    /\ finalize
    /\ pMu = "free"
    /\ soUpdate' = IF soUpdate = "cancelled" \/ (cancelSeen # {} /\ cancelledAfter >= 1)
                   THEN "cancelled" ELSE "updated"
    /\ UNCHANGED <<mdmPc, call, instructions, remainingBudget, budgetBefore,
                   deducted, execErr, finalize, pMu, next, outputChan, chanClosed,
                   received, executed, ctxDone, cancelledAfter, cancelSeen>>

MdmInit ==
    /\ mdmPc = "new"
    /\ call = [instructions |-> <<>>, budget |-> InitCost(0), locked |-> FALSE,
               programDataLen |-> 0, tgStopped |-> FALSE]
    /\ instructions = <<>>
    /\ remainingBudget = InitCost(0)
    /\ budgetBefore = InitCost(0)
    /\ deducted = "none"
    /\ execErr = "nil"
    /\ finalize = FALSE
    /\ pMu = "free"
    /\ next = 0
    /\ outputChan = <<>>
    /\ chanClosed = FALSE
    /\ received = <<>>
    /\ executed = <<>>
    /\ ctxDone = FALSE
    /\ cancelledAfter = -1
    /\ cancelSeen = {}
    /\ soUpdate = "none"

\* what the program engine leaves alone
mdmFrame == <<heapVars, lockVars, storeVars, cacheVars, metaVars, buildVars, triageVars, repairVars, addVars, workerVars, subVars>>

MdmExecuteProgram ==
    mdmPc = "new" /\
    (\E instrs \in Programs, budget \in Budgets, locked \in BOOLEAN,
        programDataLen \in ProgramDataLens, tgStopped \in BOOLEAN :
        ExecuteProgram(instrs, budget, locked, programDataLen, tgStopped))
    /\ UNCHANGED mdmFrame
MdmGoLock == Go_lock /\ UNCHANGED mdmFrame
MdmGoSelect == Go_select /\ UNCHANGED mdmFrame
MdmGoExecute == (\E hostFails \in BOOLEAN : Go_execute(hostFails)) /\ UNCHANGED mdmFrame
MdmGoReturn == Go_return /\ UNCHANGED mdmFrame
MdmReceive == ReceiveOutput /\ UNCHANGED mdmFrame
MdmCancel == CancelCtx /\ UNCHANGED mdmFrame
MdmFinalize == managedFinalize /\ UNCHANGED mdmFrame

MdmNext ==
    \/ MdmExecuteProgram \/ MdmGoLock \/ MdmGoSelect \/ MdmGoExecute
    \/ MdmGoReturn \/ MdmReceive \/ MdmCancel \/ MdmFinalize

(***************************************************************************)
(* Program cache: modules/host/mdm/sectors.go                              *)
(***************************************************************************)
\* the sector data a program appends
CacheData == {<<0, 0>>, <<0, 1>>}

\* the roots of the sectors the host has on disk for the contract
DiskRoots == {MerkleRoot(<<0, 0>>), MerkleRoot(<<1, 1>>)}

\* the root lists a program cache is created with: roots stored on disk
InitialRoots ==
    {<<>>, <<MerkleRoot(<<1, 1>>)>>, <<MerkleRoot(<<1, 1>>), MerkleRoot(<<0, 0>>)>>}

\* cachedMerkleRoot(roots): the contract's Merkle root, a collision-free
\* hash of the root list, here the number whose digits are the roots plus one
RECURSIVE cachedMerkleRoot(_)
cachedMerkleRoot(roots) ==
    IF roots = <<>> THEN 0
    ELSE (roots[1] + 1) + (MerkleRoot(<<1, 1>>) + 2) * cachedMerkleRoot(Tail(roots))

\* newSectors(roots)
newSectors(roots) ==
    [sectorsRemoved |-> <<>>, sectorsGained |-> <<>>, merkleRoots |-> roots]

\* sectors.appendSector(sectorData) on s: <<s after the call, returned root>>
appendSector(s, sectorData) ==
    LET newRoot == MerkleRoot(sectorData)
        roots   == Append(s.merkleRoots, newRoot)
    IN  << [sectorsRemoved |-> s.sectorsRemoved,
            sectorsGained  |-> [r \in DOMAIN s.sectorsGained \cup {newRoot} |->
                                   IF r = newRoot THEN sectorData ELSE s.sectorsGained[r]],
            merkleRoots    |-> roots],
           cachedMerkleRoot(roots) >>

\* the loop of dropSectors over droppedRoots: <<sectorsGained, sectorsRemoved>>
RECURSIVE dropLoop(_, _, _)
dropLoop(gained, removed, droppedRoots) ==
    IF droppedRoots = <<>> THEN <<gained, removed>>
    ELSE LET dropped == Head(droppedRoots)
         IN  IF dropped \in DOMAIN gained
             THEN dropLoop([r \in DOMAIN gained \ {dropped} |-> gained[r]], removed,
                           Tail(droppedRoots))
             ELSE dropLoop(gained, Append(removed, dropped), Tail(droppedRoots))

\* newNumSectors of dropSectors: a subtraction of two uint64
newNumSectors(s, numSectorsDropped) ==
    (Len(s.merkleRoots) - numSectorsDropped) % TwoPow64

\* the slice expression s.merkleRoots[newNumSectors:] of dropSectors is out
\* of range and panics when newNumSectors is beyond the length of the slice
slicePanics(s, numSectorsDropped) ==
    newNumSectors(s, numSectorsDropped) > Len(s.merkleRoots)

\* sectors.dropSectors(numSectorsDropped) on s when the slice expressions are
\* in range: <<s after the call, returned root>>
dropSectors(s, numSectorsDropped) ==
    LET newNum       == newNumSectors(s, numSectorsDropped)
        droppedRoots == SubSeq(s.merkleRoots, newNum + 1, Len(s.merkleRoots))
        roots        == SubSeq(s.merkleRoots, 1, newNum)
        looped       == dropLoop(s.sectorsGained, s.sectorsRemoved, droppedRoots)
    IN  << [sectorsRemoved |-> looped[2], sectorsGained |-> looped[1],
            merkleRoots |-> roots],
           cachedMerkleRoot(roots) >>

\* hasSector that finds every root
hasSector_Always(s, sectorRoot) == TRUE

\* sectors.hasSector(sectorRoot)
hasSector(s, sectorRoot) == \E k \in 1..Len(s.merkleRoots) : s.merkleRoots[k] = sectorRoot

\* no program cache has been created yet
CacheInit ==
    /\ sectors = newSectors(<<>>)
    /\ cacheCall = [op |-> "none", ret |-> 0]

\* what the program cache's operations leave alone
cacheFrame == <<heapVars, lockVars, storeVars, mdmVars, metaVars, buildVars, triageVars, repairVars, addVars, workerVars, subVars>>

\* a program starts: its cache is created from the contract's roots
CacheNew ==
    /\ cacheCall.op = "none"
    /\ \E roots \in InitialRoots :
          /\ sectors' = newSectors(roots)
          /\ cacheCall' = [op |-> "newSectors", ret |-> cachedMerkleRoot(roots)]
    /\ UNCHANGED cacheFrame

\* an Append instruction; a contract holds at most MaxRoots sectors
CacheAppend ==
    /\ cacheCall.op \notin {"none", "panic"}
    /\ Len(sectors.merkleRoots) < MaxRoots
    /\ \E sectorData \in CacheData :
          LET r == appendSector(sectors, sectorData)
          IN  /\ sectors' = r[1]
              /\ cacheCall' = [op |-> "appendSector", ret |-> r[2]]
    /\ UNCHANGED cacheFrame

\* a DropSectors instruction; it drops no more sectors than the contract has
CacheDrop ==
    /\ cacheCall.op \notin {"none", "panic"}
    /\ \E numSectorsDropped \in 0..Len(sectors.merkleRoots) :
          LET r == dropSectors(sectors, numSectorsDropped)
          IN  /\ Len(r[1].sectorsRemoved) <= MaxRemoved
              /\ sectors' = r[1]
              /\ cacheCall' = [op |-> "dropSectors", ret |-> r[2],
                               numSectorsDropped |-> numSectorsDropped,
                               before |-> sectors.merkleRoots, panic |-> FALSE]
    /\ UNCHANGED cacheFrame

\* dropSectors called with more sectors than the contract has: the
\* subtraction wraps, the slice expression panics and nothing is assigned
CacheDropBeyond ==
    /\ cacheCall.op \notin {"none", "panic"}
    /\ \E numSectorsDropped \in Uint64 :
          /\ numSectorsDropped > Len(sectors.merkleRoots)
          /\ slicePanics(sectors, numSectorsDropped)
          /\ cacheCall' = [op |-> "panic", ret |-> 0,
                           numSectorsDropped |-> numSectorsDropped,
                           before |-> sectors.merkleRoots, panic |-> TRUE]
    /\ UNCHANGED sectors
    /\ UNCHANGED cacheFrame

CacheNext == CacheNew \/ CacheAppend \/ CacheDrop \/ CacheDropBeyond

\* the sectors the host has on disk for the contract
DiskSectors == {<<0, 0>>, <<1, 1>>}

\* Host.ReadSector(sectorRoot): the host's answer for a root of the contract
hostReadSector(sectorRoot) ==
    IF sectorRoot \in {MerkleRoot(d) : d \in DiskSectors}
    THEN [err |-> "nil", host |-> TRUE,
          data |-> CHOOSE d \in DiskSectors : MerkleRoot(d) = sectorRoot]
    ELSE [err |-> "ErrSectorNotFound", host |-> TRUE, data |-> <<>>]

\* sectors.readSector(host, sectorRoot): the error, the data, and whether
\* the host was asked
readSector(s, sectorRoot) ==
    IF ~hasSector(s, sectorRoot)
    THEN [err |-> "root not found in list of roots", host |-> FALSE, data |-> <<>>]
    ELSE IF sectorRoot \in DOMAIN s.sectorsGained
    THEN [err |-> "nil", host |-> FALSE, data |-> s.sectorsGained[sectorRoot]]
    ELSE hostReadSector(sectorRoot)

(***************************************************************************)
(* The whole model and the specifications of its parts                     *)
(***************************************************************************)
(***************************************************************************)
(* Building chunks and filling the upload heap: buildUnfinishedChunks,     *)
(* managedBuildAndPushChunks and managedBuildAndPushRandomChunk            *)
(***************************************************************************)
RepairTargets == {"targetUnstuckChunks", "targetStuckChunks", "targetBackupChunks"}

\* chunk healths in tenths: below the repair threshold, repairable from
\* remote pieces, and above 1 (fewer than minimumPieces pieces are left)
BuildHealths == {1, 4, 12}

\* the number of chunks of a file
NumChunksValues == {1, 2}

\* a siafile entry: whether its local file can be read, and the health and
\* stuck status of each chunk
FileEntries ==
    [onDisk : BOOLEAN,
     chunks : UNION {[1..n -> [health : BuildHealths, stuck : BOOLEAN]] :
                        n \in NumChunksValues}]

\* len(r.workerPool) and allowance.Hosts: too few or enough for MinPieces
WorkerCounts == {0, MinPieces}

Max(a, b) == IF a >= b THEN a ELSE b

\* the indexes i < n for which test holds, in order
RECURSIVE selectIndexes(_, _, _)
selectIndexes(entry, target, i) ==
    IF i > Len(entry.chunks) THEN <<>>
    ELSE IF (target = "targetStuckChunks") = entry.chunks[i].stuck
    THEN <<i>> \o selectIndexes(entry, target, i + 1)
    ELSE selectIndexes(entry, target, i + 1)

\* buildUnfinishedChunk(entry, chunkIndex, ..., priority = false); fileUID
\* stands for the file's part of the chunk id
buildUnfinishedChunk(entry, fileUID, chunkIndex) ==
    [id |-> fileUID + chunkIndex, priority |-> FALSE,
     stuck |-> entry.chunks[chunkIndex].stuck,
     health |-> entry.chunks[chunkIndex].health]

\* buildUnfinishedChunk when entry.CopyEntry() or entry.Pieces(chunkIndex)
\* may return an error for the chunk indexes in failing: it returns nil then
buildUnfinishedChunkOrNil(entry, fileUID, chunkIndex, failing) ==
    IF chunkIndex \in failing THEN NilChunk
    ELSE buildUnfinishedChunk(entry, fileUID, chunkIndex)

\* the first nil slot of newUnfinishedChunks, 0 when there is none: the loop
\* at line 372 reads chunk.fileEntry of every slot (line 385) and a nil
\* chunk makes that a nil pointer dereference
firstNil(chunks) ==
    IF \E k \in 1..Len(chunks) : chunks[k] = NilChunk
    THEN CHOOSE k \in 1..Len(chunks) :
            /\ chunks[k] = NilChunk
            /\ \A j \in 1..(k - 1) : chunks[j] # NilChunk
    ELSE 0

\* a triage that returns every chunk that needs repair
repairable_Always(chunk, onDisk) == TRUE

\* line 387: repairable := chunk.health <= 1 || onDisk
repairable(chunk, onDisk) == chunk.health <= FullHealth \/ onDisk

\* line 388
needsRepair(chunk) == chunk.health >= RemoteRepairDownloadThreshold

\* lines 385-411: what buildUnfinishedChunks does with one chunk it built
triage(chunk, onDisk, target) ==
    IF needsRepair(chunk) /\ (repairable(chunk, onDisk) \/ target = "targetStuckChunks")
    THEN "incompleteChunks"
    ELSE IF ~repairable(chunk, onDisk)
    THEN "managedSetStuckAndClose(chunk, true)"
    ELSE "managedSetStuckAndClose(chunk, false)"

\* the chunks of a sequence that triage returns
RECURSIVE incomplete(_, _, _)
incomplete(chunks, onDisk, target) ==
    IF chunks = <<>> THEN <<>>
    ELSE IF triage(Head(chunks), onDisk, target) = "incompleteChunks"
    THEN <<Head(chunks)>> \o incomplete(Tail(chunks), onDisk, target)
    ELSE incomplete(Tail(chunks), onDisk, target)

\* buildUnfinishedChunks(entry, hosts, target, ...): the chunks built, what
\* was done with each, the chunks returned and whether SetAllStuck was called
buildUnfinishedChunks(entry, fileUID, target, workers, allowanceHosts) ==
    IF workers < MinPieces
    THEN [built |-> <<>>, done |-> <<>>, incompleteChunks |-> <<>>,
          setAllStuck |-> allowanceHosts < MinPieces /\ target = "targetUnstuckChunks"]
    ELSE LET chunkIndexes == selectIndexes(entry, target, 1)
             newUnfinishedChunks ==
                 [k \in 1..Len(chunkIndexes) |->
                     buildUnfinishedChunk(entry, fileUID, chunkIndexes[k])]
         IN  [built |-> newUnfinishedChunks,
              done |-> [k \in 1..Len(chunkIndexes) |->
                           triage(newUnfinishedChunks[k], entry.onDisk, target)],
              incompleteChunks |-> incomplete(newUnfinishedChunks, entry.onDisk, target),
              setAllStuck |-> FALSE]

\* buildUnfinishedChunks when buildUnfinishedChunk fails for the chunk
\* indexes in failing: the slots of the chunks not built stay nil (lines
\* 363-368), and the second loop runs until it reaches a nil slot, where it
\* panics and nothing is returned
buildUnfinishedChunksFailing(entry, fileUID, target, failing) ==
    LET chunkIndexes == selectIndexes(entry, target, 1)
        newUnfinishedChunks ==
            [k \in 1..Len(chunkIndexes) |->
                buildUnfinishedChunkOrNil(entry, fileUID, chunkIndexes[k], failing)]
        nil == firstNil(newUnfinishedChunks)
        reached == IF nil = 0 THEN Len(chunkIndexes) ELSE nil - 1
    IN  [built |-> newUnfinishedChunks,
         done |-> [k \in 1..reached |->
                      triage(newUnfinishedChunks[k], entry.onDisk, target)],
         incompleteChunks |-> IF nil = 0
                              THEN incomplete(newUnfinishedChunks, entry.onDisk, target)
                              ELSE <<>>,
         panic |-> nil # 0]

\* what a call of buildUnfinishedChunks leaves alone
triageFrame == <<heapVars, lockVars, storeVars, mdmVars, cacheVars, metaVars, buildVars, repairVars, addVars, workerVars, subVars>>

TriageInit == lastBuild = [op |-> "none"]

\* a call of buildUnfinishedChunks on its own
TriageCall ==
    /\ \E entry \in FileEntries, target \in RepairTargets,
          workers \in WorkerCounts, allowanceHosts \in WorkerCounts :
          lastBuild' = [op |-> "buildUnfinishedChunks", entry |-> entry,
                        target |-> target, workers |-> workers,
                        out |-> buildUnfinishedChunks(entry, 0, target, workers,
                                                      allowanceHosts)]
    /\ UNCHANGED triageFrame

\* a call of buildUnfinishedChunks, with enough workers, in which
\* buildUnfinishedChunk fails for some of the file's chunks
TriageCallFailing ==
    /\ \E entry \in FileEntries, target \in RepairTargets :
          \E failing \in SUBSET (1..Len(entry.chunks)) \ {{}} :
              lastBuild' = [op |-> "buildUnfinishedChunks, chunks not built",
                            entry |-> entry, target |-> target, failing |-> failing,
                            out |-> buildUnfinishedChunksFailing(entry, 0, target,
                                                                 failing)]
    /\ UNCHANGED triageFrame

TriageNext == TriageCall \/ TriageCallFailing

\* uploadHeap.managedExists(id)
managedExists(id) ==
    id \in unstuckHeapChunks \/ id \in repairingChunks \/ id \in stuckHeapChunks

\* the chunks built in one call of managedBuildAndPushChunks: enough to
\* bring the temporary heap to its compaction
MaxBuildChunks == 2 * maxUploadHeapChunks

\* directoryHeap.managedPeekHealth()
DirHealths == {0, 9}

\* the files of a directory handed to managedBuildAndPushChunks: their
\* chunks are the unstuck ones
DirEntries == {e \in FileEntries : \A k \in DOMAIN e.chunks : ~e.chunks[k].stuck}

\* the files handed to managedBuildAndPushRandomChunk
StuckEntries == {e \in FileEntries : Len(e.chunks) = 1 /\ e.chunks[1].stuck}

\* the largest health in a sequence of chunks, 0 for none
RECURSIVE maxHealth(_)
maxHealth(chunks) ==
    IF chunks = <<>> THEN 0 ELSE Max(Head(chunks).health, maxHealth(Tail(chunks)))

\* a heap that forgets the chunk it gives up
trackHealth_Never(worst, chunk) == worst

\* worstIgnoredHealth = math.Max(worstIgnoredHealth, chunk.health)
trackHealth(worst, chunk) == Max(worst, chunk.health)

\* lines 603-605: pop into chunksToKeep while the heap is longer than
\* maxUploadHeapChunks; the result is <<heap, chunksToKeep>>
RECURSIVE popToKeep(_, _)
popToKeep(uch, chunksToKeep) ==
    IF Len(uch) > maxUploadHeapChunks
    THEN popToKeep(heapPop(uch)[1], Append(chunksToKeep, heapPop(uch)[2]))
    ELSE <<uch, chunksToKeep>>

\* lines 623-625: push the kept chunks back
RECURSIVE pushBack(_, _)
pushBack(uch, chunksToKeep) ==
    IF chunksToKeep = <<>> THEN uch
    ELSE pushBack(heapPush(uch, Head(chunksToKeep)), Tail(chunksToKeep))

\* a compaction that keeps what the pops left in the heap
compact_KeepsRest(uch) ==
    LET k == popToKeep(uch, <<>>)
    IN  [heap |-> k[1], next |-> k[2][1], reset |-> Tail(k[2])]

\* lines 601-628: the compaction of the temporary heap: the heap afterwards,
\* the next chunk, whose health is tracked, and the chunks the reset drops
compact(uch) ==
    LET k == popToKeep(uch, <<>>)
        p == heapPop(k[1])
    IN  [heap |-> pushBack(<<>>, k[2]), next |-> p[2], reset |-> p[1]]

\* lines 669-701: the health the directory is put back with, -1 for none
reinsertHealth(worst) ==
    IF worst < RemoteRepairDownloadThreshold THEN -1 ELSE worst

\* a reset that closes no file entry
reset_ClosesNone(uch) == <<>>

\* uploadChunkHeap.reset(): the chunks whose file entry it closes, which are
\* all the chunks of the heap
reset(uch) == uch

\* c.fileEntry.Close() for each chunk of a sequence.  A chunk built from
\* the directory's files is unstuck and has an id of its own: its entry is
\* open or not, and a Close of an entry that is not open is recorded; the
\* chunks of the stuck loop are counted as a number of open entries
RECURSIVE Close(_, _)
Close(e, chunks) ==
    IF chunks = <<>> THEN e
    ELSE LET c == Head(chunks)
         IN  Close(IF c.stuck THEN [e EXCEPT !.stuckOpen = @ - 1]
                   ELSE IF c.id \in e.open THEN [e EXCEPT !.open = @ \ {c.id}]
                   ELSE [e EXCEPT !.closedTwice = TRUE],
                   Tail(chunks))

\* entry.CopyEntry() in buildUnfinishedChunk: each chunk built has an open
\* file entry
Open(e, chunks) ==
    [e EXCEPT !.open = @ \cup {chunks[k].id : k \in {j \in 1..Len(chunks) : ~chunks[j].stuck}},
              !.stuckOpen = @ + Cardinality({j \in 1..Len(chunks) : chunks[j].stuck})]

BuildInit ==
    /\ bpPc = "idle"
    /\ bpCall = [target |-> "none", dirHeapHealth |-> 0]
    /\ unfinishedUploadChunks = <<>>
    /\ built = 0
    /\ unfinishedChunkHeap = <<>>
    /\ worstIgnoredHealth = 0
    /\ worstLeftOff = 0
    /\ compaction = [op |-> "none"]
    /\ dirReinsert = -1
    /\ entries = [open |-> {}, stuckOpen |-> 0, closedTwice |-> FALSE]

\* what filling the upload heap leaves alone
buildFrame == <<lockVars, storeVars, mdmVars, cacheVars, metaVars, triageVars, repairVars, addVars, workerVars, subVars>>

\* lines 541-552: the call with the files of a directory
BuildStart ==
    /\ bpPc = "idle"
    /\ \E target \in {"targetUnstuckChunks", "targetBackupChunks"},
          dirHeapHealth \in DirHealths :
          bpCall' = [target |-> target, dirHeapHealth |-> dirHeapHealth]
    /\ bpPc' = "files"
    /\ UNCHANGED <<unfinishedUploadChunks, built, unfinishedChunkHeap,
                   worstIgnoredHealth, worstLeftOff, compaction, dirReinsert, entries>>
    /\ UNCHANGED <<heapVars, buildFrame>>

\* lines 555-559: a file healthier than the directory heap is left out
BuildSkipFile ==
    /\ bpPc = "files"
    /\ unfinishedUploadChunks = <<>>
    /\ \E fileHealth \in BuildHealths :
          /\ fileHealth < bpCall.dirHeapHealth
          /\ worstIgnoredHealth' = Max(worstIgnoredHealth, fileHealth)
          /\ worstLeftOff' = Max(worstLeftOff, fileHealth)
    /\ UNCHANGED <<bpPc, bpCall, unfinishedUploadChunks, built, unfinishedChunkHeap,
                   compaction, dirReinsert, entries>>
    /\ UNCHANGED <<heapVars, buildFrame>>

\* lines 563-565: the chunks of the next file are built; the chunks that
\* buildUnfinishedChunks does not return were closed by
\* managedSetStuckAndClose
BuildFile ==
    /\ bpPc = "files"
    /\ unfinishedUploadChunks = <<>>
    /\ \E entry \in DirEntries, workers \in WorkerCounts :
          LET out == buildUnfinishedChunks(entry, built, bpCall.target, workers,
                                           MinPieces)
              notReturned ==
                  SelectSeq(out.built,
                            LAMBDA c : triage(c, entry.onDisk, bpCall.target)
                                          # "incompleteChunks")
          IN  /\ built + Len(entry.chunks) <= MaxBuildChunks
              /\ unfinishedUploadChunks' = out.incompleteChunks
              /\ built' = built + Len(entry.chunks)
              /\ entries' = Close(Open(entries, out.built), notReturned)
    /\ UNCHANGED <<bpPc, bpCall, unfinishedChunkHeap, worstIgnoredHealth,
                   worstLeftOff, compaction, dirReinsert>>
    /\ UNCHANGED <<heapVars, buildFrame>>

\* lines 566-629: one round of the loop over the file's chunks
BuildChunk ==
    /\ bpPc = "files"
    /\ unfinishedUploadChunks # <<>>
    /\ unfinishedUploadChunks' = Tail(unfinishedUploadChunks)
    /\ LET chunk == Head(unfinishedUploadChunks)
           pushed == heapPush(unfinishedChunkHeap, chunk)
           c == compact(pushed)
       IN  IF managedExists(chunk.id)
           THEN /\ compaction' = [op |-> "none"]
                /\ entries' = Close(entries, <<chunk>>)
                /\ UNCHANGED <<unfinishedChunkHeap, worstIgnoredHealth, worstLeftOff>>
           ELSE IF chunk.health < bpCall.dirHeapHealth
           THEN /\ worstIgnoredHealth' = trackHealth(worstIgnoredHealth, chunk)
                /\ worstLeftOff' = Max(worstLeftOff, chunk.health)
                /\ compaction' = [op |-> "none"]
                /\ entries' = Close(entries, <<chunk>>)
                /\ UNCHANGED unfinishedChunkHeap
           ELSE IF Len(pushed) < maxUploadHeapChunks * 2
           THEN /\ unfinishedChunkHeap' = pushed
                /\ compaction' = [op |-> "none"]
                /\ UNCHANGED <<worstIgnoredHealth, worstLeftOff, entries>>
           ELSE /\ unfinishedChunkHeap' = c.heap
                /\ worstIgnoredHealth' = trackHealth(worstIgnoredHealth, c.next)
                /\ worstLeftOff' = Max(worstLeftOff, maxHealth(<<c.next>> \o c.reset))
                /\ compaction' = [op |-> "compact", before |-> pushed, after |-> c.heap]
                \* lines 611 and 617
                /\ entries' = Close(entries, <<c.next>> \o reset(c.reset))
    /\ UNCHANGED <<bpPc, bpCall, built, dirReinsert>>
    /\ UNCHANGED <<heapVars, buildFrame>>

\* the loop over the files ends
BuildFilesDone ==
    /\ bpPc = "files"
    /\ unfinishedUploadChunks = <<>>
    /\ bpPc' = "push"
    /\ UNCHANGED <<bpCall, unfinishedUploadChunks, built, unfinishedChunkHeap,
                   worstIgnoredHealth, worstLeftOff, compaction, dirReinsert, entries>>
    /\ UNCHANGED <<heapVars, buildFrame>>

\* line 635: the test of the push loop; when it fails lines 649-701 follow:
\* the next chunk left in the temporary heap is tracked and closed, the heap
\* is reset and the directory is put back if worstIgnoredHealth asks for it
BuildPushTest ==
    /\ bpPc = "push"
    /\ IF Len(unfinishedChunkHeap) > 0 /\ Len(heap) < maxUploadHeapChunks
       THEN /\ bpPc' = "managedPush"
            /\ UNCHANGED <<unfinishedChunkHeap, worstIgnoredHealth, worstLeftOff,
                           dirReinsert, entries>>
       ELSE LET worst == IF Len(unfinishedChunkHeap) > 0
                         THEN trackHealth(worstIgnoredHealth,
                                          heapPop(unfinishedChunkHeap)[2])
                         ELSE worstIgnoredHealth
                closed == IF Len(unfinishedChunkHeap) > 0
                          THEN <<heapPop(unfinishedChunkHeap)[2]>>
                                   \o reset(heapPop(unfinishedChunkHeap)[1])
                          ELSE reset(unfinishedChunkHeap)
            IN  /\ bpPc' = "done"
                /\ worstIgnoredHealth' = worst
                /\ worstLeftOff' = Max(worstLeftOff, maxHealth(unfinishedChunkHeap))
                /\ unfinishedChunkHeap' = <<>>
                /\ dirReinsert' = reinsertHealth(worst)
                /\ entries' = Close(entries, closed)
    /\ UNCHANGED <<bpCall, unfinishedUploadChunks, built, compaction>>
    /\ UNCHANGED <<heapVars, buildFrame>>

\* lines 637-646: the top of the temporary heap goes to the upload heap; a
\* chunk that managedPush refuses is closed
BuildPush ==
    /\ bpPc = "managedPush"
    /\ unfinishedChunkHeap' = heapPop(unfinishedChunkHeap)[1]
    /\ managedPush(heapPop(unfinishedChunkHeap)[2])
    /\ entries' = IF heapCall'.ret THEN entries
                  ELSE Close(entries, <<heapPop(unfinishedChunkHeap)[2]>>)
    /\ bpPc' = "push"
    /\ UNCHANGED <<bpCall, unfinishedUploadChunks, built, worstIgnoredHealth,
                   worstLeftOff, compaction, dirReinsert>>
    /\ UNCHANGED buildFrame

\* unfinishedUploadChunks without the chunk at randChunkIndex (line 523)
remove(chunks, randChunkIndex) ==
    SubSeq(chunks, 1, randChunkIndex - 1) \o SubSeq(chunks, randChunkIndex + 1, Len(chunks))

\* managedBuildAndPushRandomChunk, one round of its loop (lines 497-531), in
\* the stuck loop's thread: a random stuck chunk of a file is pushed, or
\* closed when managedPush refuses it, and the file's other chunks are closed
BuildPushRandomChunk ==
    /\ \E entry \in StuckEntries, workers \in WorkerCounts :
          LET unfinished == buildUnfinishedChunks(entry, 0, "targetStuckChunks",
                                                  workers, MinPieces).incompleteChunks
          IN  /\ Len(unfinished) # 0
              /\ \E randChunkIndex \in 1..Len(unfinished) :
                    /\ managedPush(unfinished[randChunkIndex])
                    /\ entries' =
                           Close(Open(entries, unfinished),
                                 (IF heapCall'.ret THEN <<>>
                                  ELSE <<unfinished[randChunkIndex]>>)
                                     \o remove(unfinished, randChunkIndex))
    /\ UNCHANGED <<bpPc, bpCall, unfinishedUploadChunks, built, unfinishedChunkHeap,
                   worstIgnoredHealth, worstLeftOff, compaction, dirReinsert>>
    /\ UNCHANGED buildFrame

\* uploadHeap.managedReset() by the repair loop, after the call: the file
\* entries of the chunks in the upload heap are closed
BuildHeapReset ==
    /\ bpPc = "done"
    /\ Len(heap) > 0
    /\ managedReset
    /\ entries' = Close(entries, reset(heap))
    /\ UNCHANGED <<bpPc, bpCall, unfinishedUploadChunks, built, unfinishedChunkHeap,
                   worstIgnoredHealth, worstLeftOff, compaction, dirReinsert>>
    /\ UNCHANGED buildFrame

BuildNext ==
    \/ BuildStart \/ BuildSkipFile \/ BuildFile \/ BuildChunk \/ BuildFilesDone
    \/ BuildPushTest \/ BuildPush \/ BuildPushRandomChunk \/ BuildHeapReset

(***************************************************************************)
(* The repair thread: threadedUploadAndRepair, managedAddChunksToHeap and  *)
(* managedRepairLoop, with the threads around it                           *)
(***************************************************************************)
\* the chunks that are uploaded and repaired: one chunk of a file, as the
\* upload and the repair loop see it and as the stuck loop sees it
RepairChunks == {c \in Chunks : c.id = 1 /\ ~c.priority /\ c.health = 9}

\* a thread group whose stop channel never becomes ready
stopChanReady_Never == FALSE

\* <-r.tg.StopChan() can be received: the renter is shutting down
stopChanReady == stopped

\* what the repair thread and the threads around it leave alone
repairFrame == <<lockVars, storeVars, mdmVars, cacheVars, metaVars, buildVars, triageVars, addVars, workerVars, subVars>>

RepairInit ==
    /\ urPc = "start"
    /\ stopped = FALSE
    /\ signals = {}
    /\ smallRepair = FALSE
    /\ nextChunk = NilChunk
    /\ working = {}
    /\ handled = [op |-> "none"]

urLocals == <<smallRepair, nextChunk, working, handled>>

\* lines 939-957: tg.Add fails once the renter is stopping
UrStart ==
    /\ urPc = "start"
    /\ urPc' = IF stopped THEN "returned" ELSE "loop"
    /\ UNCHANGED <<stopped, signals, urLocals, heapVars, repairFrame>>

\* lines 961-974: the stop test at the top of the main loop, the sleep and
\* the backup chunks; managedBuildAndPushChunks pushes a backup chunk only
\* while the heap is short of maxUploadHeapChunks
UrLoop ==
    /\ urPc = "loop"
    /\ IF stopChanReady
       THEN urPc' = "returned" /\ UNCHANGED heapVars
       ELSE /\ urPc' = "managedBlockUntilOnline"
            /\ \/ UNCHANGED heapVars
               \/ /\ Len(heap) < maxUploadHeapChunks
                  /\ \E chunk \in RepairChunks : ~chunk.stuck /\ managedPush(chunk)
    /\ UNCHANGED <<stopped, signals, urLocals, repairFrame>>

\* lines 976-980: managedBlockUntilOnline returns true once the renter is
\* online and false if the renter has shut down before
UrBlockUntilOnline ==
    /\ urPc = "managedBlockUntilOnline"
    /\ \/ urPc' = "healthy"
       \/ stopChanReady /\ urPc' = "returned"
    /\ UNCHANGED <<stopped, signals, urLocals, heapVars, repairFrame>>

\* line 983: is the file system healthy and the upload heap empty
UrHealthy ==
    /\ urPc = "healthy"
    /\ \E healthy \in BOOLEAN :
          urPc' = IF healthy /\ Len(heap) = 0 THEN "wait" ELSE "managedAddChunksToHeap"
    /\ UNCHANGED <<stopped, signals, urLocals, heapVars, repairFrame>>

\* lines 986-1004: the select on newUploads, repairNeeded and the stop channel
UrWait ==
    /\ urPc = "wait"
    /\ \/ \E s \in signals :
             /\ signals' = signals \ {s}
             /\ urPc' = "managedAddChunksToHeap"
       \/ /\ stopChanReady
          /\ urPc' = "returned"
          /\ UNCHANGED signals
    /\ UNCHANGED <<stopped, urLocals, heapVars, repairFrame>>

\* managedAddChunksToHeap, one round of its loop (lines 426-482): the loop
\* test, the stop test, then the next directory, whose chunks are pushed
\* unless there is nothing to take from it
UrAddChunks ==
    /\ urPc = "managedAddChunksToHeap"
    /\ IF Len(heap) >= maxUploadHeapChunks \/ stopChanReady
       THEN urPc' = "heapLen" /\ UNCHANGED heapVars
       ELSE \/ urPc' = "heapLen" /\ UNCHANGED heapVars
            \/ /\ \E chunk \in RepairChunks : ~chunk.stuck /\ managedPush(chunk)
               /\ urPc' = IF Len(heap') = Len(heap) THEN "heapLen"
                          ELSE "managedAddChunksToHeap"
    /\ UNCHANGED <<stopped, signals, urLocals, repairFrame>>

\* lines 1036-1037: the test for an empty heap, and line 850 at the entry of
\* managedRepairLoop
UrHeapLen ==
    /\ urPc = "heapLen"
    /\ IF Len(heap) = 0
       THEN urPc' = "emptySleep" /\ UNCHANGED smallRepair
       ELSE urPc' = "repairLoop" /\ smallRepair' = (Len(heap) < minUploadHeapSize)
    /\ UNCHANGED <<stopped, signals, nextChunk, working, handled, heapVars, repairFrame>>

\* lines 1044-1049: the backoff when the heap is empty
UrEmptySleep ==
    /\ urPc = "emptySleep"
    /\ \/ urPc' = "loop"
       \/ stopChanReady /\ urPc' = "returned"
    /\ UNCHANGED <<stopped, signals, urLocals, heapVars, repairFrame>>

\* managedRepairLoop, lines 854-866: the loop test, the stop test and the
\* online test
RlTop ==
    /\ urPc = "repairLoop"
    /\ IF ~(Len(heap) >= minUploadHeapSize \/ smallRepair)
       THEN urPc' = "bubble"
       ELSE IF stopChanReady
       THEN urPc' = "errorSleep"
       ELSE \E online \in BOOLEAN :
               urPc' = IF online THEN "managedPop" ELSE "errorSleep"
    /\ UNCHANGED <<stopped, signals, urLocals, heapVars, repairFrame>>

\* line 869: nextChunk := r.uploadHeap.managedPop()
RlPop ==
    /\ urPc = "managedPop"
    /\ managedPop
    /\ nextChunk' = heapCall'.uuc
    /\ urPc' = IF heapCall'.ret THEN "nextChunk" ELSE "managedReset"
    /\ UNCHANGED <<stopped, signals, smallRepair, working, handled, repairFrame>>

\* lines 870-874: the heap is empty: reset it and return
RlReset ==
    /\ urPc = "managedReset"
    /\ managedReset
    /\ urPc' = "bubble"
    /\ UNCHANGED <<stopped, signals, urLocals, repairFrame>>

\* lines 879-928: what the loop does with the chunk it popped
RlNextChunk ==
    /\ urPc = "nextChunk"
    /\ \E availableWorkers \in WorkerCounts, allowanceHosts \in WorkerCounts,
          memory \in BOOLEAN :
          IF availableWorkers < MinPieces
          THEN /\ handled' = [op |-> "skipped", chunk |-> nextChunk,
                              setStuck |-> allowanceHosts < MinPieces /\ ~nextChunk.stuck,
                              allowanceHosts |-> allowanceHosts,
                              closes |-> 1, marksDone |-> 1,
                              repairing |-> nextChunk.id \in repairingChunks]
               /\ managedMarkRepairDone(nextChunk.id)
               /\ UNCHANGED working
          ELSE IF ~memory
          THEN /\ handled' = [op |-> "skipped", chunk |-> nextChunk,
                              setStuck |-> FALSE, allowanceHosts |-> allowanceHosts,
                              closes |-> 1, marksDone |-> 1,
                              repairing |-> nextChunk.id \in repairingChunks]
               /\ managedMarkRepairDone(nextChunk.id)
               /\ UNCHANGED working
          ELSE /\ handled' = [op |-> "threadedFetchAndRepairChunk", chunk |-> nextChunk]
               /\ working' = working \cup {nextChunk.id}
               /\ UNCHANGED heapVars
    /\ nextChunk' = NilChunk
    /\ urPc' = "repairLoop"
    /\ UNCHANGED <<stopped, signals, smallRepair, repairFrame>>

\* lines 1062-1067: the backoff after an error of the repair loop
UrErrorSleep ==
    /\ urPc = "errorSleep"
    /\ \/ urPc' = "bubble"
       \/ stopChanReady /\ urPc' = "returned"
    /\ UNCHANGED <<stopped, signals, urLocals, heapVars, repairFrame>>

\* lines 1070-1077: the bubbles are started and the main loop goes round
UrBubble ==
    /\ urPc = "bubble"
    /\ urPc' = "loop"
    /\ UNCHANGED <<stopped, signals, urLocals, heapVars, repairFrame>>

\* a step of the repair thread
UrStep ==
    \/ UrStart \/ UrLoop \/ UrBlockUntilOnline \/ UrHealthy \/ UrWait
    \/ UrAddChunks \/ UrHeapLen \/ UrEmptySleep \/ RlTop \/ RlPop \/ RlReset
    \/ RlNextChunk \/ UrErrorSleep \/ UrBubble

\* the thread group is stopped
StopRenter ==
    /\ ~stopped
    /\ stopped' = TRUE
    /\ UNCHANGED <<urPc, signals, urLocals, heapVars, repairFrame>>

\* an upload puts its chunk on the heap and signals newUploads
UploadPush ==
    /\ \E chunk \in RepairChunks : ~chunk.stuck /\ managedPush(chunk)
    /\ signals' = signals \cup {"newUploads"}
    /\ UNCHANGED <<urPc, stopped, urLocals, repairFrame>>

\* the stuck loop puts a stuck chunk on the heap and signals repairNeeded
StuckPush ==
    /\ \E chunk \in RepairChunks : chunk.stuck /\ managedPush(chunk)
    /\ signals' = signals \cup {"repairNeeded"}
    /\ UNCHANGED <<urPc, stopped, urLocals, repairFrame>>

\* a worker is done with a chunk it was handed and marks its repair done
WorkerDone ==
    /\ \E id \in working :
          /\ managedMarkRepairDone(id)
          /\ working' = working \ {id}
    /\ UNCHANGED <<urPc, stopped, signals, smallRepair, nextChunk, handled, repairFrame>>

RepairNext == UrStep \/ StopRenter \/ UploadPush \/ StuckPush \/ WorkerDone

(***************************************************************************)
(* managedAddChunksToHeap and the threads that push at the same time       *)
(***************************************************************************)
\* the directories of the renter: one, which is popped and put back
Dirs == {"a"}

\* the chunks pushed while the upload heap is filled
AddChunks == {c \in Chunks : ~c.priority /\ c.health = 9}

\* a check that never finds the heap length unchanged
stillAdding_Always(heapLen, prev) == TRUE

\* lines 462-471: the round added chunks if the heap length has changed
stillAdding(heapLen, prev) == heapLen # prev

\* what managedAddChunksToHeap and the pushing threads leave alone
addFrame == <<lockVars, storeVars, mdmVars, cacheVars, metaVars, buildVars, triageVars, repairVars, workerVars, subVars>>

AddInit ==
    /\ acPc = "idle"
    /\ prevHeapLen = 0
    /\ directoryHeap = {}
    /\ acDir = "none"
    /\ acTemp = 0
    /\ dirPops = 0

\* lines 421-423: the call; the repair thread calls it again and again
AcCall ==
    /\ acPc \in {"idle", "returned"}
    /\ prevHeapLen' = Len(heap)
    /\ dirPops' = 0
    /\ acPc' = "loop"
    /\ UNCHANGED <<directoryHeap, acDir, acTemp, heapVars, addFrame>>

\* lines 426-431: the test of the loop and of the stop channel
AcLoop ==
    /\ acPc = "loop"
    /\ \E stop \in BOOLEAN :
          acPc' = IF Len(heap) < maxUploadHeapChunks /\ directoryHeap # {} /\ ~stop
                  THEN "managedNextExploredDirectory"
                  ELSE "returned"
    /\ UNCHANGED <<prevHeapLen, directoryHeap, acDir, acTemp, dirPops, heapVars, addFrame>>

\* lines 434-456: a directory is popped; the call returns on an error, with
\* the directory heap reset, on a nil directory and on a healthy directory
AcNextDir ==
    /\ acPc = "managedNextExploredDirectory"
    /\ dirPops' = dirPops + 1
    /\ \E err \in BOOLEAN, dirHealth \in DirHealths :
          IF err
          THEN /\ directoryHeap' = {}
               /\ acPc' = "returned"
               /\ UNCHANGED <<acDir, acTemp>>
          ELSE IF directoryHeap = {}
          THEN /\ acPc' = "returned"
               /\ UNCHANGED <<directoryHeap, acDir, acTemp>>
          ELSE \E dir \in directoryHeap :
                  /\ directoryHeap' = directoryHeap \ {dir}
                  /\ IF dirHealth < RemoteRepairDownloadThreshold
                     THEN /\ acPc' = "returned"
                          /\ UNCHANGED <<acDir, acTemp>>
                     ELSE /\ acPc' = "managedBuildChunkHeap"
                          /\ acDir' = dir
                          /\ \E n \in 0..maxUploadHeapChunks : acTemp' = n
    /\ UNCHANGED <<prevHeapLen, heapVars, addFrame>>

\* managedBuildChunkHeap, lines 635-647 of managedBuildAndPushChunks: a
\* chunk of the temporary heap goes to the upload heap or is refused
AcBuildPush ==
    /\ acPc = "managedBuildChunkHeap"
    /\ acTemp > 0 /\ Len(heap) < maxUploadHeapChunks
    /\ \E chunk \in AddChunks : ~chunk.stuck /\ managedPush(chunk)
    /\ acTemp' = acTemp - 1
    /\ UNCHANGED <<acPc, prevHeapLen, directoryHeap, acDir, dirPops, addFrame>>

\* managedBuildChunkHeap, lines 649-701 of managedBuildAndPushChunks: the
\* temporary heap is dropped and the directory is put back into the
\* directory heap if its worst ignored health asks for it
AcBuildDone ==
    /\ acPc = "managedBuildChunkHeap"
    /\ ~(acTemp > 0 /\ Len(heap) < maxUploadHeapChunks)
    /\ \E reinsert \in BOOLEAN :
          directoryHeap' = IF reinsert THEN directoryHeap \cup {acDir} ELSE directoryHeap
    /\ acTemp' = 0
    /\ acPc' = "heapLen"
    /\ UNCHANGED <<prevHeapLen, acDir, dirPops, heapVars, addFrame>>

\* lines 461-481: the call returns if the round added nothing
AcCheck ==
    /\ acPc = "heapLen"
    /\ IF stillAdding(Len(heap), prevHeapLen)
       THEN /\ prevHeapLen' = Len(heap)
            /\ acPc' = "loop"
       ELSE /\ acPc' = "returned"
            /\ UNCHANGED prevHeapLen
    /\ UNCHANGED <<directoryHeap, acDir, acTemp, dirPops, heapVars, addFrame>>

\* the steps of the call
AcStep == AcLoop \/ AcNextDir \/ AcBuildPush \/ AcBuildDone \/ AcCheck

\* an upload or the stuck loop pushes a chunk
AcOtherPush ==
    /\ acPc # "idle"
    /\ \E chunk \in AddChunks : managedPush(chunk)
    /\ UNCHANGED <<addVars, addFrame>>

\* another thread puts a directory into the directory heap
AcDirPush ==
    /\ \E dir \in Dirs :
          /\ dir \notin directoryHeap
          /\ directoryHeap' = directoryHeap \cup {dir}
    /\ UNCHANGED <<acPc, prevHeapLen, acDir, acTemp, dirPops, heapVars, addFrame>>

\* managedRepairLoop, which the repair thread runs between two calls, pops
\* a chunk
AcPop ==
    /\ acPc = "returned"
    /\ Len(heap) > 0
    /\ managedPop
    /\ UNCHANGED <<addVars, addFrame>>

\* a worker is done with a chunk
AcWorkerDone ==
    /\ \E id \in repairingChunks : managedMarkRepairDone(id)
    /\ UNCHANGED <<addVars, addFrame>>

AddNext == AcCall \/ AcStep \/ AcOtherPush \/ AcDirPush \/ AcPop \/ AcWorkerDone

(***************************************************************************)
(* Worker cache: staticTryUpdateCache, managedUpdateCache, staticCache     *)
(***************************************************************************)
\* the threads that call staticTryUpdateCache on one worker
WcCallers == {1, 2}

\* the time stops here
MaxNow == 3

\* the time that must pass before the worker updates its cache
workerCacheUpdateFrequency == 2

\* the heights of the consensus set
Heights == {1, 2}

\* a nil *workerCache, and a pointer to a workerCache
nil == <<>>
ptr(c) == <<c>>

\* a workerCache none of whose fields is set
unsetCache == [staticBlockHeight |-> -1, staticContractID |-> -1, staticLastUpdate |-> -1]

\* a workerCache all of whose fields are set
Complete(c) ==
    c.staticBlockHeight >= 0 /\ c.staticContractID >= 0 /\ c.staticLastUpdate >= 0

\* a goroutine that is not running
noUpdate == [pc |-> "none", newCache |-> unsetCache]

\* a compare-and-swap that swaps whatever it finds
CompareAndSwapUint64_Always(addr, old, new) == [swapped |-> TRUE, val |-> new]

\* atomic.CompareAndSwapUint64: whether it swapped, and the value left
CompareAndSwapUint64(addr, old, new) ==
    IF addr = old THEN [swapped |-> TRUE, val |-> new]
    ELSE [swapped |-> FALSE, val |-> addr]

\* lines 86-88: the cache exists and is younger than the update frequency
cacheFresh(cache, time) ==
    cache # nil /\ time - cache[1].staticLastUpdate < workerCacheUpdateFrequency

\* where a goroutine is inside managedUpdateCache
InUpdateCache == {"Host", "ContractByPublicKey", "newCache", "StorePointer", "AfterFunc"}

\* what the worker cache leaves alone
workerFrame == <<heapVars, lockVars, storeVars, mdmVars, cacheVars, metaVars, buildVars, triageVars, repairVars, addVars, subVars>>

WorkerInit ==
    /\ atomicCacheUpdating = 0
    /\ atomicCache = nil
    /\ wcPc = [c \in WcCallers |-> "idle"]
    /\ wcCache = [c \in WcCallers |-> nil]
    /\ upd = [c \in WcCallers |-> noUpdate]
    /\ now = 0
    /\ killed = FALSE
    /\ wakePending = FALSE

\* a thread calls staticTryUpdateCache
WcCall(c) ==
    /\ wcPc[c] = "idle"
    /\ wcPc' = [wcPc EXCEPT ![c] = "staticCache"]
    /\ UNCHANGED <<atomicCacheUpdating, atomicCache, wcCache, upd, now, killed, wakePending>>

\* line 85 and lines 106-109: staticCache loads the pointer
WcStaticCache(c) ==
    /\ wcPc[c] = "staticCache"
    /\ wcCache' = [wcCache EXCEPT ![c] = atomicCache]
    /\ wcPc' = [wcPc EXCEPT ![c] = "check"]
    /\ UNCHANGED <<atomicCacheUpdating, atomicCache, upd, now, killed, wakePending>>

\* lines 86-88: no update is necessary if the cache is fresh
WcCheck(c) ==
    /\ wcPc[c] = "check"
    /\ wcPc' = [wcPc EXCEPT ![c] = IF cacheFresh(wcCache[c], now) THEN "idle"
                                   ELSE "CompareAndSwapUint64"]
    /\ UNCHANGED <<atomicCacheUpdating, atomicCache, wcCache, upd, now, killed, wakePending>>

\* lines 91-93: signal that an update is in progress, or return if one is
WcCompareAndSwap(c) ==
    /\ wcPc[c] = "CompareAndSwapUint64"
    /\ LET r == CompareAndSwapUint64(atomicCacheUpdating, 0, 1)
       IN  /\ atomicCacheUpdating' = r.val
           /\ wcPc' = [wcPc EXCEPT ![c] = IF r.swapped THEN "go" ELSE "idle"]
    /\ UNCHANGED <<atomicCache, wcCache, upd, now, killed, wakePending>>

\* lines 98-102: the update is started in a goroutine, the caller returns
WcGo(c) ==
    /\ wcPc[c] = "go"
    /\ upd[c].pc = "none"
    /\ upd' = [upd EXCEPT ![c] = [pc |-> "Host", newCache |-> unsetCache]]
    /\ wcPc' = [wcPc EXCEPT ![c] = "idle"]
    /\ UNCHANGED <<atomicCacheUpdating, atomicCache, wcCache, now, killed, wakePending>>

\* lines 43-48: the host is looked up; the worker is killed if it is not found
WcHost(c) ==
    /\ upd[c].pc = "Host"
    /\ \E ok \in BOOLEAN :
          /\ upd' = [upd EXCEPT ![c].pc = IF ok THEN "ContractByPublicKey"
                                          ELSE "StoreUint64"]
          /\ killed' = (killed \/ ~ok)
    /\ UNCHANGED <<atomicCacheUpdating, atomicCache, wcPc, wcCache, now, wakePending>>

\* lines 51-56: the contract is looked up; the worker is killed if there is none
WcContract(c) ==
    /\ upd[c].pc = "ContractByPublicKey"
    /\ \E exists \in BOOLEAN :
          /\ upd' = [upd EXCEPT ![c].pc = IF exists THEN "newCache" ELSE "StoreUint64"]
          /\ killed' = (killed \/ ~exists)
    /\ UNCHANGED <<atomicCacheUpdating, atomicCache, wcPc, wcCache, now, wakePending>>

\* lines 59-67: the cache object is created
WcNewCache(c) ==
    /\ upd[c].pc = "newCache"
    /\ \E height \in Heights :
          upd' = [upd EXCEPT ![c] =
                     [pc |-> "StorePointer",
                      newCache |-> [staticBlockHeight |-> height,
                                    staticContractID |-> 1,
                                    staticLastUpdate |-> now]]]
    /\ UNCHANGED <<atomicCacheUpdating, atomicCache, wcPc, wcCache, now, killed, wakePending>>

\* lines 70-71: the pointer to the cache object is stored
WcStorePointer(c) ==
    /\ upd[c].pc = "StorePointer"
    /\ atomicCache' = ptr(upd[c].newCache)
    /\ upd' = [upd EXCEPT ![c].pc = "AfterFunc"]
    /\ UNCHANGED <<atomicCacheUpdating, wcPc, wcCache, now, killed, wakePending>>

\* lines 74-76: the worker will be woken when the cache is due again
WcAfterFunc(c) ==
    /\ upd[c].pc = "AfterFunc"
    /\ wakePending' = TRUE
    /\ upd' = [upd EXCEPT ![c].pc = "StoreUint64"]
    /\ UNCHANGED <<atomicCacheUpdating, atomicCache, wcPc, wcCache, now, killed>>

\* line 101: the update is complete
WcStoreUint64(c) ==
    /\ upd[c].pc = "StoreUint64"
    /\ atomicCacheUpdating' = 0
    /\ upd' = [upd EXCEPT ![c] = noUpdate]
    /\ UNCHANGED <<atomicCache, wcPc, wcCache, now, killed, wakePending>>

\* lines 74-76: the timer fires and wakes the worker
WcWake ==
    /\ wakePending
    /\ wakePending' = FALSE
    /\ UNCHANGED <<atomicCacheUpdating, atomicCache, wcPc, wcCache, upd, now, killed>>

\* time passes
WcTick ==
    /\ now < MaxNow
    /\ now' = now + 1
    /\ UNCHANGED <<atomicCacheUpdating, atomicCache, wcPc, wcCache, upd, killed, wakePending>>

WorkerNext ==
    \/ /\ \E c \in WcCallers :
             \/ WcCall(c) \/ WcStaticCache(c) \/ WcCheck(c) \/ WcCompareAndSwap(c)
             \/ WcGo(c) \/ WcHost(c) \/ WcContract(c) \/ WcNewCache(c)
             \/ WcStorePointer(c) \/ WcAfterFunc(c) \/ WcStoreUint64(c)
       /\ UNCHANGED workerFrame
    \/ (WcWake /\ UNCHANGED workerFrame)
    \/ (WcTick /\ UNCHANGED workerFrame)

(***************************************************************************)
(* Registry subscriptions: threadedSubscriptionLoop and                    *)
(* managedSubscriptionLoop                                                 *)
(***************************************************************************)
\* the iterations of threadedSubscriptionLoop that are followed
MaxRounds == 2

\* the budget a subscription session starts with
initialSubscriptionBudget == 2

\* the registry values the worker is supposed to be subscribed to
Subscriptions == {1}

\* errors are the sets of the errors composed into them; nil is the empty one
errNil == {}
ErrStopped == "ErrStopped"

\* errors.Compose of two errors, errors.Contains, and errors.AddContext,
\* which keeps the error it extends
Compose(a, b) == a \cup b
Contains(err, target) == target \in err
AddContext(err) == err

\* the account before the loop starts: enough for every session
newAccount ==
    [balance |-> 2 * MaxRounds * initialSubscriptionBudget,
     pendingWithdrawals |-> 0, pendingDeposits |-> 0]

\* the account's bookkeeping of withdrawals and deposits
managedTrackWithdrawal(a, amount) ==
    [a EXCEPT !.pendingWithdrawals = @ + amount]
managedCommitWithdrawal(a, amount, success) ==
    [a EXCEPT !.pendingWithdrawals = @ - amount,
              !.balance = IF success THEN @ - amount ELSE @]
managedTrackDeposit(a, amount) ==
    [a EXCEPT !.pendingDeposits = @ + amount]
managedCommitDeposit(a, amount, success) ==
    [a EXCEPT !.pendingDeposits = @ - amount,
              !.balance = IF success THEN @ + amount ELSE @]

\* an iteration in which nothing has happened yet
newRound == [committed |-> FALSE, trackDeposit |-> 0, commitDeposit |-> 0]

\* what the subscription loop leaves alone
subFrame == <<heapVars, lockVars, storeVars, mdmVars, cacheVars, metaVars, buildVars, triageVars, repairVars, addVars, workerVars>>

SubInit ==
    /\ subPc = "start"
    /\ subStop = FALSE
    /\ account = newAccount
    /\ subBudget = 0
    /\ subStream = FALSE
    /\ listener = FALSE
    /\ activeSubscriptions = {}
    /\ mslReturn = errNil
    /\ mslErr = errNil
    /\ errSubscription = errNil
    /\ subErr = errNil
    /\ round = newRound
    /\ rounds = 0

\* lines 792-800: the thread is added to the thread group, which fails after
\* a stop; a host older than 1.5.5 has no subscriptions
SubStart ==
    /\ subPc = "start"
    /\ \E supported \in BOOLEAN :
          subPc' = IF subStop \/ ~supported THEN "returned" ELSE "loop"
    /\ UNCHANGED <<subStop, account, subBudget, subStream, listener, activeSubscriptions,
                   mslReturn, mslErr, errSubscription, subErr, round, rounds>>

\* lines 803-808: the loop returns on a stop
SubLoopStop ==
    /\ subPc = "loop"
    /\ subStop
    /\ subPc' = "returned"
    /\ UNCHANGED <<subStop, account, subBudget, subStream, listener, activeSubscriptions,
                   mslReturn, mslErr, errSubscription, subErr, round, rounds>>

\* lines 810-835: a new iteration: the budget is set and its withdrawal tracked
SubLoopBegin ==
    /\ subPc = "loop"
    /\ ~subStop
    /\ rounds < MaxRounds
    /\ rounds' = rounds + 1
    /\ round' = newRound
    /\ subBudget' = initialSubscriptionBudget
    /\ account' = managedTrackWithdrawal(account, initialSubscriptionBudget)
    /\ subPc' = "managedBeginSubscription"
    /\ UNCHANGED <<subStop, subStream, listener, activeSubscriptions, mslReturn, mslErr,
                   errSubscription, subErr>>

\* lines 838-850: the session begins and the withdrawal is committed, or it
\* fails, the withdrawal is marked as failed and the loop tries again
SubBegin ==
    /\ subPc = "managedBeginSubscription"
    /\ \E ok \in BOOLEAN :
          /\ account' = managedCommitWithdrawal(account, initialSubscriptionBudget, ok)
          /\ subStream' = ok
          /\ round' = [round EXCEPT !.committed = ok]
          /\ subErr' = IF ok THEN errNil ELSE {"errBegin"}
          /\ subPc' = IF ok THEN "NewListener" ELSE "loop"
    /\ UNCHANGED <<subStop, subBudget, listener, activeSubscriptions, mslReturn, mslErr,
                   errSubscription, rounds>>

\* lines 854-859: the handler is registered, or the loop tries again
SubNewListener ==
    /\ subPc = "NewListener"
    /\ \E ok \in BOOLEAN :
          /\ listener' = ok
          /\ subErr' = IF ok THEN errNil ELSE {"errListener"}
          /\ subPc' = IF ok THEN "SetDeadline" ELSE "loop"
    /\ UNCHANGED <<subStop, account, subBudget, subStream, activeSubscriptions, mslReturn,
                   mslErr, errSubscription, round, rounds>>

\* lines 886-902: managedSubscriptionLoop sets the stream deadline
SubSetDeadline ==
    /\ subPc = "SetDeadline"
    /\ \E ok \in BOOLEAN :
          /\ mslErr' = IF ok THEN errNil ELSE {"errDeadline"}
          /\ mslReturn' = IF ok THEN errNil ELSE AddContext({"errDeadline"})
          /\ subPc' = IF ok THEN "select" ELSE "return"
    /\ UNCHANGED <<subStop, account, subBudget, subStream, listener, activeSubscriptions,
                   errSubscription, subErr, round, rounds>>

\* lines 904-910: the loop checks for a stop
SubSelect ==
    /\ subPc = "select"
    /\ mslReturn' = IF subStop THEN {ErrStopped} ELSE mslReturn
    /\ subPc' = IF subStop THEN "return" ELSE "fund"
    /\ UNCHANGED <<subStop, account, subBudget, subStream, listener, activeSubscriptions,
                   mslErr, errSubscription, subErr, round, rounds>>

\* lines 912-930: a budget that is half empty is funded
SubFund ==
    /\ subPc = "fund"
    /\ IF 2 * subBudget < initialSubscriptionBudget
       THEN LET fundAmt == initialSubscriptionBudget - subBudget
                tracked == managedTrackWithdrawal(account, fundAmt)
            IN  \E ok \in BOOLEAN :
                   /\ account' = managedCommitWithdrawal(tracked, fundAmt, ok)
                   /\ subBudget' = IF ok THEN subBudget + fundAmt ELSE subBudget
                   /\ mslErr' = IF ok THEN errNil ELSE {"errFund"}
                   /\ mslReturn' = IF ok THEN mslReturn ELSE AddContext({"errFund"})
                   /\ subPc' = IF ok THEN "extend" ELSE "return"
       ELSE /\ subPc' = "extend"
            /\ UNCHANGED <<account, subBudget, mslErr, mslReturn>>
    /\ UNCHANGED <<subStop, subStream, listener, activeSubscriptions, errSubscription,
                   subErr, round, rounds>>

\* lines 932-945: a subscription whose period is halfway over is extended
SubExtend ==
    /\ subPc = "extend"
    /\ \E due \in BOOLEAN, ok \in BOOLEAN :
          /\ mslErr' = IF due /\ ~ok THEN {"errExtend"} ELSE mslErr
          /\ mslReturn' = IF due /\ ~ok THEN AddContext({"errExtend"}) ELSE mslReturn
          /\ subPc' = IF due /\ ~ok THEN "return" ELSE "subscribe"
    /\ UNCHANGED <<subStop, account, subBudget, subStream, listener, activeSubscriptions,
                   errSubscription, subErr, round, rounds>>

\* lines 947-982: the worker unsubscribes from what it should not have and
\* subscribes to what it lacks; the wait that follows is a panic
SubSubscribe ==
    /\ subPc = "subscribe"
    /\ LET toUnsubscribe == activeSubscriptions \ Subscriptions
           toSubscribe == Subscriptions \ activeSubscriptions
       IN  \E unsubOk \in BOOLEAN, subOk \in BOOLEAN :
              LET unsubFails == toUnsubscribe # {} /\ ~unsubOk
                  subFails == ~unsubFails /\ toSubscribe # {} /\ ~subOk
              IN  /\ mslErr' = IF unsubFails THEN {"errUnsubscribe"}
                               ELSE IF subFails THEN {"errSubscribe"}
                               ELSE mslErr
                  /\ mslReturn' = IF unsubFails THEN AddContext({"errUnsubscribe"})
                                 ELSE IF subFails THEN AddContext({"errSubscribe"})
                                 ELSE mslReturn
                  /\ subPc' = IF unsubFails \/ subFails THEN "return" ELSE "panic"
    /\ UNCHANGED <<subStop, account, subBudget, subStream, listener, activeSubscriptions,
                   errSubscription, subErr, round, rounds>>

\* stopSubscription: the errors it can return
stopSubscription == {errNil, {"errStopSubscription"}}

\* lines 888-897 after a return statement: the result is set to the operand,
\* then the deferred function assigns the result of stopSubscription to it
\* and clears the active subscriptions; line 862: the caller keeps the result
SubReturn ==
    /\ subPc = "return"
    /\ \E stopErr \in stopSubscription :
          /\ mslErr' = stopErr
          /\ errSubscription' = stopErr
    /\ subStream' = FALSE
    /\ activeSubscriptions' = {}
    /\ subPc' = "CloseListener"
    /\ UNCHANGED <<subStop, account, subBudget, listener, mslReturn, subErr, round, rounds>>

\* line 982 and lines 888-897: the panic runs the deferred function and ends
\* the thread
SubPanic ==
    /\ subPc = "panic"
    /\ \E stopErr \in stopSubscription : mslErr' = stopErr
    /\ subStream' = FALSE
    /\ activeSubscriptions' = {}
    /\ subPc' = "panicked"
    /\ UNCHANGED <<subStop, account, subBudget, listener, mslReturn, errSubscription,
                   subErr, round, rounds>>

\* lines 864-868: the handler is closed
SubCloseListener ==
    /\ subPc = "CloseListener"
    /\ \E ok \in BOOLEAN : subErr' = IF ok THEN errNil ELSE {"errCloseListener"}
    /\ listener' = FALSE
    /\ subPc' = "refund"
    /\ UNCHANGED <<subStop, account, subBudget, subStream, activeSubscriptions, mslReturn,
                   mslErr, errSubscription, round, rounds>>

\* lines 870-873: what is left of the budget is deposited
SubRefund ==
    /\ subPc = "refund"
    /\ LET refund == subBudget
       IN  account' = managedCommitDeposit(managedTrackDeposit(account, refund),
                                           refund, TRUE)
    /\ round' = [round EXCEPT !.trackDeposit = @ + 1, !.commitDeposit = @ + 1]
    /\ subPc' = "check"
    /\ UNCHANGED <<subStop, subBudget, subStream, listener, activeSubscriptions, mslReturn,
                   mslErr, errSubscription, subErr, rounds>>

\* lines 875-882: the loop returns on ErrStopped and goes on otherwise
SubCheck ==
    /\ subPc = "check"
    /\ subPc' = IF Contains(errSubscription, ErrStopped) THEN "returned" ELSE "loop"
    /\ UNCHANGED <<subStop, account, subBudget, subStream, listener, activeSubscriptions,
                   mslReturn, mslErr, errSubscription, subErr, round, rounds>>

\* the thread group is stopped
SubStopSignal ==
    /\ ~subStop
    /\ subStop' = TRUE
    /\ UNCHANGED <<subPc, account, subBudget, subStream, listener, activeSubscriptions,
                   mslReturn, mslErr, errSubscription, subErr, round, rounds>>

\* the host charges the budget of the session for what it sends
SubCharge ==
    /\ subPc \in {"select", "fund"}
    /\ subBudget > 0
    /\ subBudget' = subBudget - 1
    /\ UNCHANGED <<subPc, subStop, account, subStream, listener, activeSubscriptions,
                   mslReturn, mslErr, errSubscription, subErr, round, rounds>>

SubNext ==
    \/ (SubStart /\ UNCHANGED subFrame)
    \/ (SubLoopStop /\ UNCHANGED subFrame)
    \/ (SubLoopBegin /\ UNCHANGED subFrame)
    \/ (SubBegin /\ UNCHANGED subFrame)
    \/ (SubNewListener /\ UNCHANGED subFrame)
    \/ (SubSetDeadline /\ UNCHANGED subFrame)
    \/ (SubSelect /\ UNCHANGED subFrame)
    \/ (SubFund /\ UNCHANGED subFrame)
    \/ (SubExtend /\ UNCHANGED subFrame)
    \/ (SubSubscribe /\ UNCHANGED subFrame)
    \/ (SubReturn /\ UNCHANGED subFrame)
    \/ (SubPanic /\ UNCHANGED subFrame)
    \/ (SubCloseListener /\ UNCHANGED subFrame)
    \/ (SubRefund /\ UNCHANGED subFrame)
    \/ (SubCheck /\ UNCHANGED subFrame)
    \/ (SubStopSignal /\ UNCHANGED subFrame)
    \/ (SubCharge /\ UNCHANGED subFrame)

(***************************************************************************)
(* Sector metadata records: writeSectorMetadata in the contract manager    *)
(***************************************************************************)
\* the values of a uint16: two bytes
TwoPow16 == TwoPow8 * TwoPow8

\* the bytes of a metadata record: the sector id followed by a uint16
sectorMetadataDiskSize == sectorIDSize + 2

\* the sector ids written to the metadata file
SectorIDs == [1..sectorIDSize -> 0..(TwoPow8 - 1)]

\* the virtual-sector counts a sectorLocation may hold
MetaCounts == 1..TwoPow16

\* binary.LittleEndian.PutUint16: the low byte first
PutUint16(v) == <<v % TwoPow8, (v \div TwoPow8) % TwoPow8>>

\* binary.LittleEndian.Uint16
LittleEndianUint16(b) == b[1] + TwoPow8 * b[2]

\* f.WriteAt(data, off) on a file held as a sequence of bytes
WriteAt(f, data, off) ==
    [k \in 1..Len(f) |->
        IF k > off /\ k <= off + Len(data) THEN data[k - off] ELSE f[k]]

\* writeSectorMetadata(f, sectorIndex, id, count) with count a uint16: the
\* record is the id followed by the count, written at
\* sectorMetadataDiskSize * sectorIndex
writeSectorMetadata(f, sectorIndex, id, count) ==
    LET writeData == [k \in 1..sectorMetadataDiskSize |->
                         IF k <= sectorIDSize THEN id[k]
                         ELSE PutUint16(count)[k - sectorIDSize]]
    IN  WriteAt(f, writeData, sectorMetadataDiskSize * sectorIndex)

\* the record of a slot decoded from the metadata file
decodeSectorMetadata(f, sectorIndex) ==
    LET off == sectorMetadataDiskSize * sectorIndex
    IN  [id |-> [k \in 1..sectorIDSize |-> f[off + k]],
         count |-> LittleEndianUint16(<<f[off + sectorIDSize + 1],
                                        f[off + sectorIDSize + 2]>>)]

MetaInit ==
    /\ metaFile = [k \in 1..(NumMetaSlots * sectorMetadataDiskSize) |-> 0]
    /\ metaCall = [op |-> "none"]

\* what the metadata file leaves alone
metaFrame == <<heapVars, lockVars, storeVars, mdmVars, cacheVars, buildVars, triageVars, repairVars, addVars, workerVars, subVars>>

\* the metadata of a sectorLocation is written: its count, a uint64, is
\* converted to the uint16 parameter of writeSectorMetadata
MetaWrite ==
    /\ \E sectorIndex \in 0..(NumMetaSlots - 1), id \in SectorIDs, count \in MetaCounts :
          /\ metaFile' = writeSectorMetadata(metaFile, sectorIndex, id, count % TwoPow16)
          /\ metaCall' = [op |-> "writeSectorMetadata", sectorIndex |-> sectorIndex,
                          id |-> id, count |-> count]
    /\ UNCHANGED metaFrame

MetaNext == MetaWrite

Init == HeapInit /\ LockInit /\ StoreInit /\ MdmInit /\ CacheInit /\ MetaInit
        /\ TriageInit /\ BuildInit /\ RepairInit /\ AddInit /\ WorkerInit
        /\ SubInit

Next == HeapNext \/ LockNext \/ StoreNext \/ MdmNext \/ CacheNext \/ MetaNext
        \/ TriageNext \/ BuildNext \/ RepairNext \/ AddNext \/ WorkerNext
        \/ SubNext

Spec == Init /\ [][Next]_vars

\* the upload heap alone
SpecHeap == Init /\ [][HeapNext]_vars

\* the sector locks alone
SpecLock == Init /\ [][LockNext]_vars

\* the sector store alone
SpecStore == Init /\ [][StoreNext]_vars

\* one MDM program alone
SpecMdm == Init /\ [][MdmNext]_vars

\* the program engine with a goroutine that is scheduled: each of its steps
\* is taken if it stays possible
SpecMdmLive ==
    /\ SpecMdm
    /\ WF_vars(MdmGoLock) /\ WF_vars(MdmGoSelect)
    /\ WF_vars(MdmGoExecute) /\ WF_vars(MdmGoReturn)

\* the program cache alone
SpecCache == Init /\ [][CacheNext]_vars

\* the metadata file alone
SpecMeta == Init /\ [][MetaNext]_vars

\* buildUnfinishedChunks alone
SpecTriage == Init /\ [][TriageNext]_vars

\* one call of managedBuildAndPushChunks, with the stuck loop pushing chunks
SpecBuild == Init /\ [][BuildNext]_vars

\* the repair thread with uploads, the stuck loop, workers and the shutdown
SpecRepair == Init /\ [][RepairNext]_vars

\* the steps of goroutine t inside managedLockSector and
\* managedUnlockSector, the call of managedUnlockSector by a holder included
LockThreadStep(t) ==
    /\ \/ \E id \in SectorIds : LockSector_walLock(t, id)
       \/ LockSector_register(t) \/ LockSector_walUnlock(t) \/ LockSector_muLock(t)
       \/ UnlockSector_walLock(t) \/ UnlockSector_lookup(t)
       \/ UnlockSector_decrement(t) \/ UnlockSector_muUnlock(t)
       \/ UnlockSector_gc(t) \/ UnlockSector_return(t)
    /\ UNCHANGED lockFrame

\* the sector locks with fair mutexes: a goroutine that stands at a Lock()
\* of a mutex that becomes free again and again gets it (sync.Mutex hands a
\* starving waiter the mutex), every other statement is executed, and a
\* holder calls managedUnlockSector
SpecLockLive == SpecLock /\ \A t \in Threads : SF_vars(LockThreadStep(t))

\* managedAddChunksToHeap with the threads that push chunks and directories
SpecAdd == Init /\ [][AddNext]_vars

\* the worker cache alone
SpecWorker == Init /\ [][WorkerNext]_vars

\* the subscription loop alone
SpecSub == Init /\ [][SubNext]_vars

\* the same with a call whose statements are executed
SpecAddLive == SpecAdd /\ WF_vars(AcStep)

\* the same with a repair thread that is scheduled: it takes a step if one
\* stays possible
SpecRepairLive == SpecRepair /\ WF_vars(UrStep)

(***************************************************************************)
(* Claims about the upload heap, checked under SpecHeap                    *)
(***************************************************************************)
\* the sets among the three membership sets that hold id
SetsHolding(id) ==
    (IF id \in unstuckHeapChunks THEN {"unstuck"} ELSE {})
    \cup (IF id \in stuckHeapChunks THEN {"stuck"} ELSE {})
    \cup (IF id \in repairingChunks THEN {"repairing"} ELSE {})

\* the positions of the heap that hold a chunk with this id
HeapPositions(id) == {k \in 1..Len(heap) : heap[k].id = id}

\* C1: in every reachable state each chunk id is a member of at most one of
\* unstuckHeapChunks, stuckHeapChunks and repairingChunks.
C1_HeapSetExclusivity ==
    \A id \in ChunkIds : Cardinality(SetsHolding(id)) <= 1

\* C2: every chunk in uh.heap has its id in exactly one of the two heap sets,
\* every id in the two heap sets belongs to exactly one chunk of uh.heap, and
\* no id of a chunk in uh.heap is in repairingChunks.
C2_HeapMatchesSets ==
    /\ \A k \in 1..Len(heap) :
          /\ (heap[k].id \in stuckHeapChunks) # (heap[k].id \in unstuckHeapChunks)
          /\ heap[k].id \notin repairingChunks
    /\ \A id \in stuckHeapChunks \cup unstuckHeapChunks :
          Cardinality(HeapPositions(id)) = 1
    /\ Len(heap) = Cardinality(stuckHeapChunks) + Cardinality(unstuckHeapChunks)

\* C3: a managedPush of a chunk whose id is already in one of the three sets
\* (whatever its stuck flag), or of a stuck chunk when stuckHeapChunks is at
\* the cap, returns false and changes neither the heap nor the sets.
C3_PushRejected ==
    [][ (/\ heapCall'.op = "push"
         /\ \/ SetsHolding(heapCall'.uuc.id) # {}
            \/ /\ heapCall'.uuc.stuck
               /\ Cardinality(stuckHeapChunks) >= maxStuckChunksInHeap)
        => (/\ heapCall'.ret = FALSE
            /\ UNCHANGED <<heap, repairingChunks, stuckHeapChunks, unstuckHeapChunks>>)
      ]_vars

\* C4: the number of ids in stuckHeapChunks never exceeds maxStuckChunksInHeap.
C4_StuckCap == Cardinality(stuckHeapChunks) <= maxStuckChunksInHeap

\* a stuck chunk with an unknown id was turned away because of the cap alone
C4_Witness ==
    /\ heapCall.op = "push"
    /\ heapCall.uuc.stuck
    /\ ~heapCall.ret
    /\ SetsHolding(heapCall.uuc.id) = {}
    /\ Cardinality(stuckHeapChunks) = maxStuckChunksInHeap

\* the order of the claim: a ranks strictly above b
RanksAbove(a, b) ==
    \/ a.priority /\ ~b.priority
    \/ a.priority = b.priority /\ a.stuck /\ ~b.stuck
    \/ a.priority = b.priority /\ a.stuck = b.stuck /\ a.health > b.health

\* C5: managedPop on a non-empty heap returns a chunk, and no chunk left in
\* the heap ranks above it (priority first, then stuck over unstuck, then the
\* higher health).
C5_PopReturnsTop ==
    heapCall.op = "pop" =>
        IF heapCall.ret
        THEN \A k \in 1..Len(heap) : ~RanksAbove(heap[k], heapCall.uuc)
        ELSE heap = <<>>

\* a pop that left two chunks behind which differ in rank from each other
\* and from the chunk returned
C5_Witness ==
    /\ heapCall.op = "pop"
    /\ heapCall.ret
    /\ Len(heap) = 2
    /\ RanksAbove(heapCall.uuc, heap[1])
    /\ RanksAbove(heap[1], heap[2])
    /\ heap[1].stuck # heap[2].stuck
    /\ heap[1].health < heap[2].health

\* the heap holds exactly S1 {false, true, 0.3} and U1 {false, false, 0.9}
HoldsS1U1 ==
    /\ Len(heap) = 2
    /\ \E s, u \in 1..2 :
          /\ s # u
          /\ heap[s].id # heap[u].id
          /\ ~heap[s].priority /\ heap[s].stuck /\ heap[s].health = 3
          /\ ~heap[u].priority /\ ~heap[u].stuck /\ heap[u].health = 9

\* C6 as stated: with S1 {false, true, 0.3} and U1 {false, false, 0.9} in the
\* heap, the next managedPop returns U1 and leaves S1 for the pop after it.
C6_UnstuckFirst ==
    [][ (HoldsS1U1 /\ heapCall'.op = "pop")
        => (/\ ~heapCall'.uuc.stuck
            /\ heapCall'.uuc.health = 9
            /\ Len(heap') = 1
            /\ heap'[1].stuck)
      ]_vars

\* C6 amended: with S1 {false, true, 0.3} and U1 {false, false, 0.9} in the
\* heap, the next managedPop returns the stuck chunk S1 and leaves U1, which
\* the pop after it returns: a stuck chunk outranks an unstuck chunk of the
\* same priority whatever their health.
C6_StuckFirst ==
    [][ /\ (HoldsS1U1 /\ heapCall'.op = "pop")
            => (/\ heapCall'.ret
                /\ heapCall'.uuc.stuck
                /\ heapCall'.uuc.health = 3
                /\ Len(heap') = 1
                /\ ~heap'[1].stuck
                /\ heap'[1].health = 9)
        /\ (Len(heap) = 1 /\ heapCall'.op = "pop")
            => (heapCall'.ret /\ heapCall'.uuc = heap[1] /\ heap' = <<>>)
      ]_vars

\* S1 has just been popped and U1 is what is left
C6_Witness ==
    /\ heapCall.op = "pop"
    /\ heapCall.uuc.stuck /\ ~heapCall.uuc.priority /\ heapCall.uuc.health = 3
    /\ Len(heap) = 1
    /\ ~heap[1].stuck /\ ~heap[1].priority /\ heap[1].health = 9
    /\ heap[1].id # heapCall.uuc.id
    /\ repairingChunks = {heapCall.uuc.id}

(***************************************************************************)
(* Claims about the per-sector locks, checked under SpecLock               *)
(***************************************************************************)
\* t is between the return of managedLockSector and its call of
\* managedUnlockSector
HoldsSector(t) == pc[t] = "holding"

\* C7: for every sector id at most one goroutine at a time is between the
\* return of managedLockSector(id) and its call of managedUnlockSector(id);
\* a goroutine in that region has the mutex of its sectorLock, and no two
\* goroutines have locked sectorLock objects (the same or different ones) for
\* one id.
C7_SectorMutualExclusion ==
    /\ \A t \in Threads :
          HoldsSector(t) => (held[t] # 0 /\ sectorLocks[held[t]].mu = t)
    /\ \A t1, t2 \in Threads :
          (t1 # t2 /\ held[t1] # 0 /\ held[t2] # 0) => lockId[t1] # lockId[t2]

\* a goroutine holds a sector whose table entry was collected and created
\* again, while another goroutine is blocked on the same sector
C7_Witness ==
    \E t1, t2 \in Threads :
        /\ t1 # t2
        /\ HoldsSector(t1)
        /\ pc[t2] = "lk_muLock"
        /\ lockId[t1] = lockId[t2]
        /\ lockId[t1] \in collected

\* the goroutines that have started managedLockSector(id) (taken wal.mu at
\* line 321) and not finished their managedUnlockSector(id)
UsersOf(id) == {t \in Threads : lockId[t] = id}

\* C8: whenever wal.mu is free, lockedSectors has an entry for a sector id
\* exactly if some goroutine has started managedLockSector(id) and not
\* finished the matching managedUnlockSector(id), and the entry's waiting
\* field is the number of those goroutines; with no such goroutine at all the
\* table is empty.
C8_LockTableMatchesUsers ==
    walMu = 0 =>
        \A id \in SectorIds :
            /\ (lockedSectors[id] # 0) <=> (UsersOf(id) # {})
            /\ lockedSectors[id] # 0 =>
                  sectorLocks[lockedSectors[id]].waiting = Cardinality(UsersOf(id))

\* wal.mu is free, one sector has a holder and a waiter, and the entry of
\* another sector has been collected and is gone
C8_Witness ==
    /\ walMu = 0
    /\ \E id, other \in SectorIds :
          /\ lockedSectors[id] # 0
          /\ sectorLocks[lockedSectors[id]].waiting = 2
          /\ other \in collected
          /\ lockedSectors[other] = 0

(***************************************************************************)
(* Claims about the sector store, checked under SpecStore                  *)
(***************************************************************************)
\* the root a sector id was derived from
RootOfId(id) == id - sectorSalt

\* C9: every entry of subSectorLocations has a parent that is a key of
\* sectorLocations (and no child has an empty entry list); deleteSector(id)
\* leaves no entry with parent id, removes from the map the children all of
\* whose entries had that parent, so that ReadSector of such a child returns
\* ErrSectorNotFound, and keeps the other parents' entries of the rest.
C9_ChildCleanup ==
    /\ \A c \in DOMAIN subSectorLocations :
          /\ Len(subSectorLocations[c]) > 0
          /\ \A k \in 1..Len(subSectorLocations[c]) :
                subSectorLocations[c][k].parent \in DOMAIN sectorLocations
    /\ storeCall.op = "deleteSector" =>
          /\ \A c \in DOMAIN subSectorLocations :
                \A k \in 1..Len(subSectorLocations[c]) :
                    subSectorLocations[c][k].parent # storeCall.id
          /\ \A c \in storeCall.orphans :
                /\ c \notin DOMAIN subSectorLocations
                /\ ReadSector(RootOfId(c)).err = "ErrSectorNotFound"
          /\ \A c \in DOMAIN storeCall.kept :
                /\ c \in DOMAIN subSectorLocations
                /\ subSectorLocations[c] = storeCall.kept[c]

\* a deleteSector that removed one child altogether and left another child
\* with the entries of its other parent
C9_Witness ==
    /\ storeCall.op = "deleteSector"
    /\ storeCall.orphans # {}
    /\ DOMAIN storeCall.kept # {}

C11_NoDualPresence ==
    DOMAIN sectorLocations \cap DOMAIN subSectorLocations = {}

\* the offset of the sub-sector a root resolves to, 0 for a primary sector
BaseOffset(root) ==
    LET id == managedSectorID(root)
    IN  IF id \in DOMAIN subSectorLocations
        THEN subSectorLocations[id][1].offset
        ELSE 0

\* the root resolves to a stored sector or to a sub-sector of one
Resolves(root) ==
    ReadPartialSector(root, 0, 0).err
        \notin {"ErrSectorNotFound", "found subsector but not parent"}

\* C12: ReadPartialSector (and with it readPartialSector) answers with the
\* out-of-bounds error every request on a stored root whose offset plus
\* length, as mathematical integers and with the sub-sector's own offset
\* added first, exceeds the sector size, for all 64-bit offsets and lengths.
C12_OutOfBoundsRejected ==
    \A root \in RequestRoots :
        Resolves(root) =>
            \A offset, length \in Uint64 :
                BaseOffset(root) + offset + length > SectorSize
                    => ReadPartialSector(root, offset, length).err = "out of bounds"

(***************************************************************************)
(* Claims about the MDM program engine, checked under SpecMdm              *)
(***************************************************************************)
\* ExecuteProgram got as far as deducting InitCost from the budget
ReachedDeduction == mdmPc # "new" /\ (deducted # "none" \/ executed # <<>>)

\* C13: Cost.Sub(c2) on a budget c reports failure whenever one of the five
\* fields of c2 is greater than the same field of c and success only when no
\* field underflows, so that ExecuteProgram returns ErrInsufficientBudget
\* whenever InitCost is not covered in some field.
C13_SubFailsOnAnyUnderflow ==
    ReachedDeduction =>
        LET c2        == InitCost(call.programDataLen)
            underflow == \E f \in CostFields : c2[f] > call.budget[f]
        IN  /\ Sub(call.budget, c2)[2] <=> ~underflow
            /\ underflow => execErr = "ErrInsufficientBudget"

\* C14: after every successful deduction (InitCost, then each instruction's
\* cost) each of the five fields of the remaining budget is at most what it
\* was before the deduction.
C14_BudgetNeverIncreases ==
    deducted = "ok" => \A f \in CostFields : remainingBudget[f] <= budgetBefore[f]

\* C15: if the cancellation of ctx is visible at the check before
\* instruction i, then instruction i and the instructions after it are not
\* executed and produce no output.
C15_CancelStopsExecution ==
    \A i \in cancelSeen :
        /\ \A k \in 1..Len(executed) : executed[k] < i
        /\ \A k \in 1..Len(outputChan) : outputChan[k].instr < i
        /\ \A k \in 1..Len(received) : received[k].instr < i

Outputs == received \o outputChan

\* C17: the outputs on the channel are those of instructions 0, 1, ..., k in
\* program order without gap, duplicate or reordering; an output with an
\* error is the last one, no instruction after it is executed, and once the
\* goroutine is done the channel is closed.
C17_OutputsInOrder ==
    /\ \A k \in 1..Len(Outputs) : Outputs[k].instr = k - 1
    /\ \A k \in 1..Len(executed) : executed[k] = k - 1
    /\ Len(Outputs) = Len(executed)
    /\ \A k \in 1..Len(Outputs) :
          Outputs[k].error # "nil"
              => (k = Len(Outputs) /\ mdmPc \in {"go_return", "go_done"})
    /\ mdmPc = "go_done" <=> chanClosed

\* the caller has received two outputs, the second with an error, of a
\* program of three instructions, and the channel is closed
C17_Witness ==
    /\ Len(instructions) = 3
    /\ Len(received) = 2
    /\ received[1].error = "nil"
    /\ received[2].error = "failed"
    /\ outputChan = <<>>
    /\ chanClosed

\* the program sent to ExecuteProgram has a write instruction
HasWrite(instrs) == \E k \in 1..Len(instrs) : instrs[k] \in WriteSpecifiers

C19_AppendDropNetZero ==
    cacheCall.op # "none" =>
        \A sectorData \in CacheData :
            LET appended == appendSector(sectors, sectorData)
                dropped  == dropSectors(appended[1], 1)
            IN  /\ dropped[2] = cachedMerkleRoot(sectors.merkleRoots)
                /\ dropped[1] = sectors

\* C20: every root in merkleRoots is a key of sectorsGained or one of the
\* roots stored on disk.
C20_RootsGainedOrOnDisk ==
    \A k \in 1..Len(sectors.merkleRoots) :
        sectors.merkleRoots[k] \in DOMAIN sectors.sectorsGained \cup DiskRoots

\* the roots in a sequence of roots
RootsIn(roots) == {roots[k] : k \in 1..Len(roots)}

\* C21: at the end of any program no root is both a key of sectorsGained and
\* an element of sectorsRemoved, and no root occurs twice in sectorsRemoved.
C21_GainedRemovedDisjoint ==
    /\ DOMAIN sectors.sectorsGained \cap RootsIn(sectors.sectorsRemoved) = {}
    /\ Cardinality(RootsIn(sectors.sectorsRemoved)) = Len(sectors.sectorsRemoved)

\* the roots a program asks the cache for
ReadRoots == {MerkleRoot(d) : d \in CacheData \cup DiskSectors}

C26_GoroutineFinishes ==
    /\ [](mdmPc = "go_execute" => Len(outputChan) < Len(call.instructions))
    /\ [](chanClosed => (mdmPc = "go_done" /\ Len(Outputs) = Len(executed)))
    /\ [][chanClosed => (chanClosed' /\ Outputs' = Outputs /\ executed' = executed)]_vars
    /\ (mdmPc = "go_lock" ~> chanClosed)

\* the goroutine of a program of three instructions is done, the channel is
\* closed and holds all three outputs: the consumer has read nothing
C26_Witness ==
    /\ chanClosed
    /\ Len(instructions) = 3
    /\ received = <<>>
    /\ Len(outputChan) = 3
    /\ executed = <<0, 1, 2>>

\* C24: for every slot and every virtual-sector count from 1 to 2^16, the
\* record written by writeSectorMetadata decodes, at the slot's offset, to the
\* sector id and the count that were written.
C24_MetadataRoundTrip ==
    metaCall.op = "writeSectorMetadata" =>
        LET r == decodeSectorMetadata(metaFile, metaCall.sectorIndex)
        IN  r.id = metaCall.id /\ r.count = metaCall.count

\* C22: the upload heap never holds more than maxUploadHeapChunks chunks,
\* with managedBuildAndPushChunks (directory and backup target) and
\* managedBuildAndPushRandomChunk pushing into it.
C22_HeapWithinCap == Len(heap) <= maxUploadHeapChunks

\* the chunks in a sequence
ChunksIn(uch) == {uch[k] : k \in 1..Len(uch)}

\* C27: the temporary heap of managedBuildAndPushChunks never holds more than
\* 2*maxUploadHeapChunks chunks; a push that brings it to that size is
\* followed by the compaction, after which it holds exactly the
\* maxUploadHeapChunks highest-ranked chunks it held before: no discarded
\* chunk ranks above a kept one.
C27_CompactionKeepsBest ==
    /\ Len(unfinishedChunkHeap) < 2 * maxUploadHeapChunks
    /\ compaction.op = "compact" =>
          LET kept == ChunksIn(compaction.after)
              discarded == ChunksIn(compaction.before) \ kept
          IN  /\ Len(compaction.before) = 2 * maxUploadHeapChunks
              /\ Len(compaction.after) = maxUploadHeapChunks
              /\ Cardinality(kept) = maxUploadHeapChunks
              /\ kept \subseteq ChunksIn(compaction.before)
              /\ \A d \in discarded, k \in kept : ~RanksAbove(d, k)

\* a compaction has dropped chunks of a lower health than the ones it kept
C27_Witness ==
    /\ compaction.op = "compact"
    /\ \E d \in ChunksIn(compaction.before) \ ChunksIn(compaction.after),
          k \in ChunksIn(compaction.after) : d.health < k.health
    /\ \E k1, k2 \in ChunksIn(compaction.after) : k1.health # k2.health

C23_StopTerminatesThread == stopped ~> (urPc = "returned")

\* the thread has returned after a stop that reached it in the repair loop
\* with a chunk handed to a worker
C23_Witness ==
    /\ urPc = "returned"
    /\ stopped
    /\ handled.op = "threadedFetchAndRepairChunk"
    /\ working # {}

\* C30: a chunk the repair loop popped and did not hand to a worker is closed
\* and taken out of repairingChunks by one managedMarkRepairDone call, made
\* while its id is in repairingChunks, before the next pop; it is marked stuck
\* only if it was not stuck and the allowance has fewer hosts than its
\* minimum pieces; when the loop has returned, repairingChunks holds only ids
\* of chunks handed to workers.
C30_SkippedChunkReleased ==
    /\ handled.op = "skipped" =>
          /\ handled.closes = 1
          /\ handled.marksDone = 1
          /\ handled.repairing
          /\ handled.setStuck =>
                (~handled.chunk.stuck /\ handled.allowanceHosts < MinPieces)
    /\ urPc \in {"bubble", "errorSleep"} => repairingChunks \subseteq working

\* C34: the sanity check of managedPop never fires: no managedPop removes
\* from the heap a chunk whose id is already in repairingChunks.
C34_PopSanityCheckSilent == ~(heapCall.op = "pop" /\ heapCall.critical)

\* C40: dropSectors(n) never wraps its new root count: called with n larger
\* than the number of roots it does not index outside merkleRoots and
\* leaves merkleRoots no longer than before; called with n up to the number
\* of roots it removes exactly the last n roots.
C40_DropSectorsSafe ==
    /\ cacheCall.op # "panic"
    /\ cacheCall.op = "dropSectors" =>
          /\ Len(sectors.merkleRoots) <= Len(cacheCall.before)
          /\ cacheCall.numSectorsDropped <= Len(cacheCall.before) =>
                sectors.merkleRoots =
                    SubSeq(cacheCall.before, 1,
                           Len(cacheCall.before) - cacheCall.numSectorsDropped)

\* C36: ReadPartialSector(root, offset, length) on a root that resolves only
\* to a sub-sector returns no byte of the parent outside the sub-sector's
\* range: a request with offset + length greater than the sub-sector's
\* length is rejected.
C36_ReadWithinView ==
    \A root \in Roots :
        LET id == managedSectorID(root)
        IN  (id \in DOMAIN subSectorLocations /\ id \notin DOMAIN sectorLocations) =>
                \A offset, length \in 0..SectorSize :
                    offset + length > subSectorLocations[id][1].length =>
                        ReadPartialSector(root, offset, length).err # "nil"

\* C37: buildUnfinishedChunks never dereferences or returns a missing chunk:
\* when buildUnfinishedChunk yields nil for a chunk index, the filter skips
\* that slot and goes on to the file's remaining chunks, and no nil chunk is
\* returned.
C37_NilChunksSkipped ==
    lastBuild.op = "buildUnfinishedChunks, chunks not built" =>
        LET out == lastBuild.out
        IN  /\ ~out.panic
            /\ NilChunk \notin ChunksIn(out.incompleteChunks)
            /\ \A k \in 1..Len(out.built) :
                  out.built[k] # NilChunk =>
                      /\ k \in DOMAIN out.done
                      /\ (out.done[k] = "incompleteChunks"
                             <=> out.built[k] \in ChunksIn(out.incompleteChunks))

\* the places of managedLockSector and managedUnlockSector at which a
\* goroutine has wal.mu: none of them blocks
WalMuRegion ==
    {"lk_register", "lk_walUnlock", "ul_lookup", "ul_decrement", "ul_muUnlock",
     "ul_gc", "ul_return"}

\* the places of a goroutine that has called managedLockSector and not
\* returned from it
LockRegion == {"lk_walLock", "lk_register", "lk_walUnlock", "lk_muLock"}

\* the places of a goroutine that has a sector lock and has not returned
\* from managedUnlockSector
UnlockRegion ==
    {"holding", "ul_lookup", "ul_decrement", "ul_muUnlock", "ul_gc", "ul_return"}

\* C35: the sector lock protocol is deadlock-free and live: whoever has
\* wal.mu is never waiting for a sector lock; with fair mutexes and holders
\* that unlock, no goroutine stays inside managedLockSector for ever, which
\* it leaves only with the sector's lock, and no holder stays in
\* managedUnlockSector for ever.
C35_SectorLocksLive ==
    /\ [](walMu # 0 => pc[walMu] \in WalMuRegion)
    /\ [][\A t \in Threads :
             (pc[t] \in LockRegion /\ pc'[t] \notin LockRegion) => pc'[t] = "holding"]_vars
    /\ \A t \in Threads : []<>(pc[t] \notin LockRegion)
    /\ \A t \in Threads : []<>(pc[t] \notin UnlockRegion)

\* a holder is inside managedUnlockSector with wal.mu, a second goroutine is
\* blocked on the holder's sector lock and a third stands at wal.mu.Lock()
C35_Witness ==
    \E t1, t2, t3 \in Threads :
        /\ pc[t1] = "ul_decrement"
        /\ walMu = t1
        /\ pc[t2] = "lk_muLock"
        /\ sl[t2] = held[t1]
        /\ pc[t3] = "lk_walLock"

\* the chunks built from the directory's files that are on their way: in
\* the list of the current file, in the temporary heap or in the upload heap
OnTheWay ==
    SelectSeq(unfinishedUploadChunks \o unfinishedChunkHeap \o heap,
              LAMBDA c : ~c.stuck)

\* how many chunks of a sequence have the id
CountOf(chunks, id) == Cardinality({k \in 1..Len(chunks) : chunks[k].id = id})

C39_AddChunksTerminates ==
    /\ [][(acPc = "heapLen" /\ acPc' = "loop") => Len(heap) > prevHeapLen]_vars
    /\ [](dirPops <= maxUploadHeapChunks)
    /\ (acPc = "loop") ~> (acPc = "returned")

\* a call is in its last possible round: it has popped maxUploadHeapChunks
\* directories, the one it works on was put back before, and the upload heap
\* has grown in every round
C39_Witness ==
    /\ acPc = "heapLen"
    /\ dirPops = maxUploadHeapChunks
    /\ acDir \in directoryHeap
    /\ Len(heap) > prevHeapLen
    /\ prevHeapLen > 0

\* C31: for each worker at most one goroutine is inside managedUpdateCache,
\* atomicCacheUpdating is 1 exactly while a started update has not yet reset
\* it (also after an update that killed the worker), and the cache pointer
\* and every value staticCache returned is nil or a complete workerCache
C31_OneCacheUpdate ==
    /\ Cardinality({c \in WcCallers : upd[c].pc \in InUpdateCache}) <= 1
    /\ Cardinality({c \in WcCallers : upd[c].pc # "none" \/ wcPc[c] = "go"})
          = atomicCacheUpdating
    /\ atomicCache = nil \/ Complete(atomicCache[1])
    /\ \A c \in WcCallers : wcCache[c] = nil \/ Complete(wcCache[c][1])

\* an update killed the worker and reset the flag, a later update is about to
\* store its cache, and a concurrent caller that read a cache is at the
\* compare-and-swap
C31_Witness ==
    /\ killed
    /\ atomicCacheUpdating = 1
    /\ \E c, d \in WcCallers :
          /\ c # d
          /\ upd[c].pc = "StorePointer"
          /\ wcPc[d] = "CompareAndSwapUint64"
          /\ wcCache[d] # nil

\* C32: every iteration of threadedSubscriptionLoop whose withdrawal was
\* committed as successful has deposited the rest of the budget, with one
\* managedTrackDeposit and one managedCommitDeposit, when the next iteration
\* starts or the loop returns, also after NewListener has failed
C32_RefundInAnyCase ==
    (subPc \in {"loop", "returned"} /\ round.committed) =>
        round.trackDeposit = 1 /\ round.commitDeposit = 1

\* C33: the caller of managedSubscriptionLoop receives the error of the
\* return statement, ErrStopped after a stop was observed: what the deferred
\* stopSubscription returns never replaces it
C33_ReturnedErrorKept ==
    subPc = "CloseListener" => mslReturn \subseteq errSubscription

====
